---- MODULE Spec2Model ----
(***************************************************************************)
(* react-native-upload: the upload orchestration engine.                   *)
(*                                                                         *)
(*   helpers.ts   mapConcurrent   the bounded-concurrency task runner      *)
(*   upload.ts    uploadFile      one chunked file: size check, session,   *)
(*                                chunk fan-out, thumbnail, completion     *)
(*   upload.ts    uploadFiles     the batch: strategy switch, chunked      *)
(*                                phase, simple phase, ordered merge       *)
(*                                                                         *)
(* JavaScript runs one job at a time: an action of this module is what the *)
(* code does from the settlement of one awaited call of a collaborator     *)
(* (provider, PUT, probe, generator) up to the next awaited call.          *)
(*                                                                         *)
(* SpecMC   runs mapConcurrent alone over every small input and bound.     *)
(***************************************************************************)
EXTENDS Integers, Sequences, FiniteSets, TLC

\* ----------------------------------------------------------------- bounds
\* longest input list of a mapConcurrent run
MaxItems == 3
\* largest finite concurrency bound of a mapConcurrent run
MaxConc == 3

\* helpers.ts:29   concurrency: number = Infinity
Infinity == 1000000

\* the values the items of a mapConcurrent run are drawn from
ItemVals == {"a", "b"}
\* longest input list of an uploadFiles call
MaxFiles == 2
\* most parts of the file of a single-file call
MaxParts == 3
\* largest size, in bytes, of the file whose chunk plan is enumerated
MaxBytes == 5
\* most collaborator calls that fail in one uploadFiles call
MaxFaults == 2

VARIABLES
    items,         \* mapConcurrent: the input list, a function over 0..n-1
    concurrency,   \* mapConcurrent: the bound
    mc,            \* mapConcurrent: the promise and the closure's variables
    invoked,       \* history: how many times the mapper was called per index
    settled,       \* history: how each mapper invocation settled
    settleOrder,   \* history: the indices of the invocations, in settle order
    files,         \* uploadFiles: the input list, a function over 0..n-1
    config,        \* uploadFiles: the unified configuration
    phase,         \* uploadFiles: where the call stands, up to its settlement
    rejection,     \* uploadFiles: the message it rejected with
    filePool,      \* uploadMultipleFiles: its mapConcurrent over the chunked files
    simplePool,    \* uploadMultipleSimpleFiles: its mapConcurrent
    up,            \* per input file: its pipeline (stage, chunk pool, locals)
    resultMap,     \* uploadFiles: resultMap, keyed by fileIndex
    results,       \* uploadFiles: the list it resolves with
    totalProgress, \* the calls of config.onTotalProgress, in order
    faults         \* how many collaborator calls have failed so far

mcVars == <<items, concurrency, mc, invoked, settled, settleOrder>>

batchVars == <<files, config, phase, rejection, filePool, simplePool, up, resultMap,
               results, totalProgress, faults>>

vars == <<items, concurrency, mc, invoked, settled, settleOrder, files, config,
          phase, rejection, filePool, simplePool, up, resultMap, results,
          totalProgress, faults>>

\* ------------------------------------------------------------ mapConcurrent

NoError == [kind |-> "none", index |-> -1]
\* helpers.ts:36
ConcurrencyError == [kind |-> "Concurrency must be greater than 0", index |-> -1]
\* the error the mapper invocation of index i rejects with
MapperError(i) == [kind |-> "mapper", index |-> i]

\* The state of one mapConcurrent call before it runs.
NotCalled ==
    [path |-> "none", index |-> 0, executing |-> {}, results |-> <<>>,
     outcome |-> "idle", error |-> NoError]

\* results[i] = value on an array with holes: a function over the filled slots
Put(array, i, value) ==
    [j \in (DOMAIN array) \cup {i} |-> IF j = i THEN value ELSE array[j]]

\* resolve(results): settles the promise unless it is settled already
resolve(p) ==
    IF p.outcome = "pending" THEN [p EXCEPT !.outcome = "resolved"] ELSE p

\* a reject that overwrites an outcome already settled
rejectLastWins(p, reason) ==
    [p EXCEPT !.outcome = "rejected", !.error = reason]

\* reject(error): settles the promise unless it is settled already
reject(p, reason) ==
    IF p.outcome = "pending"
    THEN [p EXCEPT !.outcome = "rejected", !.error = reason]
    ELSE p

\* the limit test off by one: dispatches while executing.size <= concurrency
RECURSIVE processNextOffByOne(_, _, _)
processNextOffByOne(p, len, conc) ==
    IF p.index >= len
    THEN IF p.executing = {} THEN resolve(p) ELSE p
    ELSE IF Cardinality(p.executing) > conc
         THEN p
         ELSE processNextOffByOne(
                  [p EXCEPT !.index = @ + 1, !.executing = @ \cup {p.index}],
                  len, conc)

\* batch by batch: the next inputs are dispatched only once every invocation
\* of the previous batch has settled
processNextBatchwise(p, len, conc) ==
    IF p.index >= len
    THEN IF p.executing = {} THEN resolve(p) ELSE p
    ELSE IF p.executing # {}
         THEN p
         ELSE LET last == IF p.index + conc > len THEN len ELSE p.index + conc
              IN  [p EXCEPT !.index = last, !.executing = p.index .. (last - 1)]

\* a variant that dispatches nothing more once the promise is rejected
RECURSIVE processNextStopsOnReject(_, _, _)
processNextStopsOnReject(p, len, conc) ==
    IF p.outcome = "rejected"
    THEN p
    ELSE IF p.index >= len
    THEN IF p.executing = {} THEN resolve(p) ELSE p
    ELSE IF Cardinality(p.executing) >= conc
         THEN p
         ELSE processNextStopsOnReject(
                  [p EXCEPT !.index = @ + 1, !.executing = @ \cup {p.index}],
                  len, conc)

\* a variant that resolves as soon as every input is dispatched, without
\* waiting for the invocations still executing
RECURSIVE processNextResolvesEarly(_, _, _)
processNextResolvesEarly(p, len, conc) ==
    IF p.index >= len
    THEN resolve(p)
    ELSE IF Cardinality(p.executing) >= conc
         THEN p
         ELSE processNextResolvesEarly(
                  [p EXCEPT !.index = @ + 1, !.executing = @ \cup {p.index}],
                  len, conc)

\* processNext: dispatches pending inputs while below the limit; resolves
\* once every input is dispatched and nothing is executing.
RECURSIVE processNext(_, _, _)
processNext(p, len, conc) ==
    IF p.index >= len
    THEN IF p.executing = {} THEN resolve(p) ELSE p
    ELSE IF Cardinality(p.executing) >= conc
         THEN p
         ELSE processNext(
                  [p EXCEPT !.index = @ + 1, !.executing = @ \cup {p.index}],
                  len, conc)

\* the bound validated with < instead of <=
mapConcurrentStrictBound(len, conc) ==
    IF len = 0
    THEN [NotCalled EXCEPT !.path = "empty", !.outcome = "resolved"]
    ELSE IF conc < 0
    THEN [NotCalled EXCEPT !.path = "invalid", !.outcome = "rejected",
                           !.error = ConcurrencyError]
    ELSE IF conc = Infinity \/ conc >= len
    THEN [NotCalled EXCEPT !.path = "all", !.index = len,
                           !.executing = 0 .. (len - 1), !.outcome = "pending"]
    ELSE processNext([NotCalled EXCEPT !.path = "bounded", !.outcome = "pending"],
                     len, conc)

\* the bound validated before the empty check
mapConcurrentValidateFirst(len, conc) ==
    IF conc <= 0
    THEN [NotCalled EXCEPT !.path = "invalid", !.outcome = "rejected",
                           !.error = ConcurrencyError]
    ELSE IF len = 0
    THEN [NotCalled EXCEPT !.path = "empty", !.outcome = "resolved"]
    ELSE IF conc = Infinity \/ conc >= len
    THEN [NotCalled EXCEPT !.path = "all", !.index = len,
                           !.executing = 0 .. (len - 1), !.outcome = "pending"]
    ELSE processNext([NotCalled EXCEPT !.path = "bounded", !.outcome = "pending"],
                     len, conc)

\* mapConcurrent up to its first suspension: the empty check, the validation
\* of the bound, then either every mapper at once (Promise.all) or the first
\* round of processNext.
mapConcurrent(len, conc) ==
    IF len = 0
    THEN [NotCalled EXCEPT !.path = "empty", !.outcome = "resolved"]
    ELSE IF conc <= 0
    THEN [NotCalled EXCEPT !.path = "invalid", !.outcome = "rejected",
                           !.error = ConcurrencyError]
    ELSE IF conc = Infinity \/ conc >= len
    THEN [NotCalled EXCEPT !.path = "all", !.index = len,
                           !.executing = 0 .. (len - 1), !.outcome = "pending"]
    ELSE processNext([NotCalled EXCEPT !.path = "bounded", !.outcome = "pending"],
                     len, conc)

\* the result stored in the next free slot, in settle order
mapperResolvedInSettleOrder(p, len, conc, i, value) ==
    LET slot == Cardinality(DOMAIN p.results)
        q == [p EXCEPT !.results = Put(@, slot, value), !.executing = @ \ {i}]
    IN  IF p.path = "all"
        THEN IF DOMAIN q.results = 0 .. (len - 1) THEN resolve(q) ELSE q
        ELSE processNext(q, len, conc)

\* The mapper invocation of index i resolved with value:
\*   Promise.all: slot i is filled, and the whole resolves once all are filled;
\*   bounded: .then stores results[i], .finally deletes it from executing and
\*   runs processNext.
mapperResolved(p, len, conc, i, value) ==
    LET q == [p EXCEPT !.results = Put(@, i, value), !.executing = @ \ {i}]
    IN  IF p.path = "all"
        THEN IF DOMAIN q.results = 0 .. (len - 1) THEN resolve(q) ELSE q
        ELSE processNext(q, len, conc)

\* The mapper invocation of index i rejected with error:
\*   Promise.all: the whole rejects with the first rejection;
\*   bounded: .catch calls reject(error), .finally deletes and runs processNext.
mapperRejected(p, len, conc, i, reason) ==
    LET q == reject([p EXCEPT !.executing = @ \ {i}], reason)
    IN  IF p.path = "all" THEN q ELSE processNext(q, len, conc)

\* the indices handed to the mapper by a step from p to q
Dispatched(p, q) == p.index .. (q.index - 1)

\* --------------------------------------------- mapConcurrent run on its own

length(f) == Cardinality(DOMAIN f)

\* mapper(item, index): the value a resolving invocation yields
mapper(item, index) == [item |-> item, index |-> index]

\* the batch variables of a specification that runs no batch
BatchUnused ==
    /\ files = <<>>
    /\ config = <<>>
    /\ phase = "unused"
    /\ rejection = ""
    /\ filePool = NotCalled
    /\ simplePool = NotCalled
    /\ up = <<>>
    /\ resultMap = <<>>
    /\ results = <<>>
    /\ totalProgress = <<>>
    /\ faults = 0

InitMC ==
    /\ \E n \in 0 .. MaxItems : items \in [0 .. (n - 1) -> ItemVals]
    /\ concurrency \in (-1 .. MaxConc) \cup {Infinity}
    /\ mc = NotCalled
    /\ invoked = [i \in DOMAIN items |-> 0]
    /\ settled = [i \in DOMAIN items |-> "no"]
    /\ settleOrder = <<>>
    /\ BatchUnused

\* the indices whose mapper rejected, in time order
RejectOrder == SelectSeq(settleOrder, LAMBDA i : settled[i] = "rejected")

\* the invocations started and not yet settled
Outstanding == {i \in DOMAIN items : invoked[i] > 0 /\ settled[i] = "no"}

\* mapConcurrent(items, mapper, concurrency) is called
MCCall ==
    /\ mc.outcome = "idle"
    /\ mc' = mapConcurrent(length(items), concurrency)
    /\ invoked' = [i \in DOMAIN items |->
                      IF i \in mc'.executing THEN invoked[i] + 1 ELSE invoked[i]]
    /\ UNCHANGED <<items, concurrency, settled, settleOrder>>
    /\ UNCHANGED batchVars

\* the mapper invocation of index i resolves
MCMapperResolves(i) ==
    /\ i \in Outstanding
    /\ mc' = mapperResolved(mc, length(items), concurrency, i, mapper(items[i], i))
    /\ settled' = [settled EXCEPT ![i] = "resolved"]
    /\ settleOrder' = Append(settleOrder, i)
    /\ invoked' = [j \in DOMAIN items |->
                      IF j \in Dispatched(mc, mc') THEN invoked[j] + 1 ELSE invoked[j]]
    /\ UNCHANGED <<items, concurrency>>
    /\ UNCHANGED batchVars

\* the mapper invocation of index i rejects
MCMapperRejects(i) ==
    /\ i \in Outstanding
    /\ mc' = mapperRejected(mc, length(items), concurrency, i, MapperError(i))
    /\ settled' = [settled EXCEPT ![i] = "rejected"]
    /\ settleOrder' = Append(settleOrder, i)
    /\ invoked' = [j \in DOMAIN items |->
                      IF j \in Dispatched(mc, mc') THEN invoked[j] + 1 ELSE invoked[j]]
    /\ UNCHANGED <<items, concurrency>>
    /\ UNCHANGED batchVars

NextMC ==
    \/ MCCall
    \/ \E i \in DOMAIN items : MCMapperResolves(i)
    \/ \E i \in DOMAIN items : MCMapperRejects(i)

SpecMC == InitMC /\ [][NextMC]_vars

\* mapConcurrent run on its own, every mapper invocation settling in the end:
\* a step that can be taken is taken
FairMC == SpecMC /\ WF_vars(NextMC)

\* ------------------------------------------------- claims on mapConcurrent

Called == mc.outcome # "idle"

\* C3: for a non-empty input and a bound N >= 1, at every instant the number
\* of mapper invocations started and not yet settled is at most N.
C3_AtMostNOutstanding ==
    (Called /\ length(items) > 0 /\ concurrency >= 1)
        => Cardinality(Outstanding) <= concurrency

\* the bounded path after a refill: the bound is met, an invocation has
\* settled and every input is dispatched
C3_Witness ==
    /\ mc.path = "bounded"
    /\ concurrency = 2
    /\ Cardinality(Outstanding) = concurrency
    /\ Len(settleOrder) > 0
    /\ mc.index = length(items)

\* C4: when every mapper invocation resolves, mapConcurrent resolves with a
\* list as long as the input whose position i holds mapper(items[i], i),
\* whatever the settle order and the bound N >= 1.
C4_ResultsInInputOrder ==
    (/\ Called
     /\ length(items) > 0
     /\ concurrency >= 1
     /\ \A i \in DOMAIN items : settled[i] = "resolved")
        => /\ mc.outcome = "resolved"
           /\ DOMAIN mc.results = DOMAIN items
           /\ \A i \in DOMAIN items : mc.results[i] = mapper(items[i], i)

\* all resolved, out of input order, on the bounded path
C4_Witness ==
    /\ mc.path = "bounded"
    /\ mc.outcome = "resolved"
    /\ settleOrder = <<1, 0, 2>>
    /\ items[0] # items[1]

\* all resolved, out of input order, on the dispatch-all path
C4_WitnessAll ==
    /\ mc.path = "all"
    /\ mc.outcome = "resolved"
    /\ settleOrder = <<2, 0, 1>>

\* C5: a non-empty input with a bound N <= 0 fails with 'Concurrency must be
\* greater than 0' and the mapper is never invoked.
C5_InvalidBoundFails ==
    (Called /\ length(items) > 0 /\ concurrency <= 0)
        => /\ mc.outcome = "rejected"
           /\ mc.error = ConcurrencyError
           /\ \A i \in DOMAIN items : invoked[i] = 0

C5_Witness ==
    /\ Called
    /\ length(items) = 2
    /\ concurrency = 0
    /\ mc.outcome = "rejected"

\* C6: an empty input returns an empty result without invoking the mapper and
\* without failing, for every bound, N <= 0 included.
C6_EmptyInputReturnsEmpty ==
    (Called /\ length(items) = 0)
        => /\ mc.outcome = "resolved"
           /\ mc.results = <<>>
           /\ mc.index = 0
           /\ mc.executing = {}

C6_Witness ==
    /\ Called
    /\ length(items) = 0
    /\ concurrency = -1
    /\ mc.outcome = "resolved"

\* C7, as a state predicate: once a mapper has rejected the operation is
\* rejected with the error of the first invocation to reject, and the
\* invocations in flight stay in flight until they settle themselves.
C7_FirstRejectionWins ==
    (Called /\ concurrency >= 1)
        => /\ RejectOrder # <<>> =>
                 /\ mc.outcome = "rejected"
                 /\ mc.error = MapperError(RejectOrder[1])
           /\ RejectOrder = <<>> => mc.outcome # "rejected"
           /\ Outstanding = mc.executing

\* C7, as a step property: a settled outcome never changes
C7_SettledStays ==
    mc.outcome \in {"resolved", "rejected"}
        => (mc'.outcome = mc.outcome /\ mc'.error = mc.error)

\* C7: the operation settles exactly once, with the first rejection in time if
\* any mapper rejects; in-flight invocations still run to settlement, and a
\* later rejection or the later resolve attempt changes nothing.
C7_FailurePolicy == []C7_FirstRejectionWins /\ [][C7_SettledStays]_vars

\* two rejections and the final resolve attempt, on the bounded path
C7_Witness ==
    /\ mc.path = "bounded"
    /\ Len(RejectOrder) >= 2
    /\ RejectOrder[1] > RejectOrder[2]
    /\ mc.index = length(items)
    /\ mc.executing = {}

\* ---------------------------------------------------------------- upload.ts

MiB == 1024 * 1024
DEFAULT_CHUNK_SIZE == 5 * 1024 * 1024
DEFAULT_CONCURRENT_FILE_UPLOAD_LIMIT == 3
DEFAULT_CONCURRENT_CHUNK_UPLOAD_LIMIT == 6
DEFAULT_MAX_FILE_SIZE_MB == 4096
DEFAULT_CHUNK_THRESHOLD_BYTES == 5 * 1024 * 1024

\* an option or a field that is not set (no number a caller passes)
Undefined == -1000000
\* Math.ceil(0 / 0)
NaN == -2

\* v || d on numbers: undefined and 0 give the default
OrDefault(v, d) == IF v = Undefined \/ v = 0 THEN d ELSE v
\* v ?? d: only undefined gives the default
Coalesce(v, d) == IF v = Undefined THEN d ELSE v
\* Math.min
Min(a, b) == IF a < b THEN a ELSE b

Max(S) == CHOOSE x \in S : \A y \in S : y <= x
\* the elements of a set of numbers as a list over 0..n-1, ascending
Ordered(S) ==
    [k \in 0 .. (Cardinality(S) - 1) |->
        CHOOSE x \in S : Cardinality({y \in S : y < x}) = k]
IndexOf(list, x) == CHOOSE k \in DOMAIN list : list[k] = x

\* uploadFiles: the strategy switch
chunkThreshold == Coalesce(config.chunkThresholdBytes, DEFAULT_CHUNK_THRESHOLD_BYTES)
\* a variant that sends a file of exactly the threshold the simple way
isChunkedAboveThreshold(fileSize) == fileSize > chunkThreshold
\* the test of files.forEach
isChunked(fileSize) == fileSize >= chunkThreshold
chunkedFiles == Ordered({i \in DOMAIN files : isChunked(files[i].fileSize)})
simpleFiles == Ordered({i \in DOMAIN files : ~isChunked(files[i].fileSize)})

concurrentFileLimit ==
    OrDefault(config.concurrentFileUploadLimit, DEFAULT_CONCURRENT_FILE_UPLOAD_LIMIT)
concurrentChunkLimit ==
    OrDefault(config.concurrentChunkUploadLimit, DEFAULT_CONCURRENT_CHUNK_UPLOAD_LIMIT)
chunkSize == OrDefault(config.chunkSize, DEFAULT_CHUNK_SIZE)
maxFileSizeMB == OrDefault(config.maxFileSizeMB, DEFAULT_MAX_FILE_SIZE_MB)

\* uploadFile: the plan of one file
partSize(fileSize) == Min(chunkSize, fileSize)
totalParts(fileSize) ==
    IF partSize(fileSize) = 0
    THEN NaN
    ELSE (fileSize + partSize(fileSize) - 1) \div partSize(fileSize)

\* (fileSize / (1024 * 1024)).toFixed(2), in hundredths of a megabyte: the
\* division by 2^20 is exact in a double and toFixed rounds half up
toFixed2(fileSize) ==
    (fileSize \div MiB) * 100 + ((fileSize % MiB) * 200 + MiB) \div (2 * MiB)
\* parseInt(fileSizeMB, 10): the digits before the decimal point
parseInt(hundredths) == hundredths \div 100
sizeLimitExceeded(fileSize) == parseInt(toFixed2(fileSize)) > maxFileSizeMB

\* a variant that gives every task the full part size
RECURSIVE planFromFullLength(_, _, _, _)
planFromFullLength(position, partNumber, fileSize, size) ==
    IF position < fileSize
    THEN <<[position |-> position, length |-> size, partNumber |-> partNumber]>>
             \o planFromFullLength(position + size, partNumber + 1, fileSize, size)
    ELSE <<>>

\* one iteration of the loop: the task pushed at a position
taskAt(position, partNumber, fileSize, size) ==
    [position |-> position, length |-> Min(size, fileSize - position),
     partNumber |-> partNumber]

\* the while loop that builds uploadTasks, from a position and a part number,
\* two iterations to a level of the recursion
RECURSIVE planFrom(_, _, _, _)
planFrom(position, partNumber, fileSize, size) ==
    IF position >= fileSize
    THEN <<>>
    ELSE IF position + Min(size, fileSize - position) >= fileSize
    THEN <<taskAt(position, partNumber, fileSize, size)>>
    ELSE <<taskAt(position, partNumber, fileSize, size),
           taskAt(position + size, partNumber + 1, fileSize, size)>>
             \o planFrom(position + size + Min(size, fileSize - position - size),
                         partNumber + 2, fileSize, size)
uploadTasks(fileSize) == planFrom(0, 1, fileSize, partSize(fileSize))

\* ------------------------------------------------- collaborators' outcomes
\* getUploadUrl({uploadType: "chunked"}): every URL, one URL short, none, a
\* response without urls or uploadId, a rejection
SessionOutcomes == {"ok", "short", "empty", "invalid", "reject"}
\* one chunk: 200 with an ETag header, 200 without, another status, a
\* transport error, a read error
ChunkOutcomes == {"etag", "noetag", "status", "network", "read"}
\* generateVideoThumbnail: a path, null (module not installed), an error
GenOutcomes == {"path", "null", "throw"}
\* getThumbnailSignedUrl, then the read of the thumbnail's bytes
ThumbUrlOutcomes == {"ok", "reject", "read"}
\* a PUT whose body is already read
PutOutcomes == {"ok", "status", "network"}
\* getImageSize
DimsOutcomes == {"ok", "fail"}
\* markUploadComplete
MarkOutcomes == {"ok", "reject"}
\* getUploadUrl({uploadType: "simple"})
SimpleUrlOutcomes == {"ok", "invalid", "reject"}
\* uploadSimpleFile: the read of the file, then the PUT
SimplePutOutcomes == {"ok", "status", "network", "read"}

Nominal(o) == o \in {"ok", "etag", "path"}

ChunkReason(o) ==
    CASE o = "status" -> "Received 500 status"
      [] o = "network" -> "Network request failed"
      [] o = "read" -> "read failed"
      [] OTHER -> "invalid url"

\* what readAndUploadChunk returns
ChunkResult(partNumber, o) ==
    IF o \in {"etag", "noetag"}
    THEN [partNumber |-> partNumber, error |-> FALSE,
          eTag |-> IF o = "etag" THEN "etag" ELSE "", reason |-> ""]
    ELSE [partNumber |-> partNumber, error |-> TRUE, eTag |-> "",
          reason |-> ChunkReason(o)]

\* a variant in which a failing chunk rejects instead of returning its reason
chunkSettledThrowing(pool, n, k, o) ==
    IF o \in {"etag", "noetag"}
    THEN mapperResolved(pool, n, concurrentChunkLimit, k, ChunkResult(k + 1, o))
    ELSE mapperRejected(pool, n, concurrentChunkLimit, k,
                        [kind |-> ChunkReason(o), index |-> k])

\* the mapper of the chunk pool: readAndUploadChunk catches every error, so
\* the invocation for part k + 1 of n always resolves, with its outcome
chunkSettled(pool, n, k, o) ==
    mapperResolved(pool, n, concurrentChunkLimit, k, ChunkResult(k + 1, o))

\* ------------------------------------------------------- per-file pipeline

\* stage, urls, pool, uploadedPartsCount, thumbPath, thumbnailKey and dims are
\* the locals of the file's pipeline; the other fields record what the
\* pipeline did to its collaborators and callbacks.
IdleFile ==
    [stage |-> "idle", urls |-> 0, pool |-> NotCalled, thumbPath |-> FALSE,
     thumbnailKey |-> FALSE, dims |-> FALSE,
     reqChunked |-> 0, reqSimple |-> 0, markCalls |-> 0, markParts |-> <<>>,
     markKey |-> Undefined,
     uploadedPartsCount |-> 0,  \* readAndUploadFileAsChunks: uploadedPartsCount
     progress |-> <<>>,         \* the snapshots given to config.onProgress
     sentTotalParts |-> Undefined, \* totalParts of the getSignedUrls request
     session |-> "none",        \* how getSignedUrls settled
     gen |-> "none",            \* how generateVideoThumbnail settled
     mark |-> "none",           \* how markUploadComplete settled
     failedSteps |-> {},        \* thumbnail and probe steps that failed
     firstReason |-> "",        \* the reason of the first chunk seen to fail
     puts |-> <<>>]             \* per URL of the session (1 is urls[0]): the
                                \* part numbers PUT to it, in time order

\* an UploadFileResult that reports a failure
FailedResult(i, reason) ==
    [fileIndex |-> files[i].fileIndex, mediaType |-> files[i].mediaType,
     uploadFailed |-> TRUE, reason |-> reason, key |-> Undefined,
     thumbnailKey |-> FALSE, dims |-> FALSE]

\* the key the provider gives the session (or the simple URL) of file i
KeyOf(i) == i

\* uploadFile: fileUploadStatusMap folded over the responses. The entry is
\* made from the first response; each later failed response overwrites the
\* reason.
formattedResponse(i, u) ==
    LET res == u.pool.results
        failed == {k \in DOMAIN res : res[k].error}
    IN  IF DOMAIN res = {}
        THEN FailedResult(i, "No upload response received")
        ELSE [fileIndex |-> files[i].fileIndex, mediaType |-> files[i].mediaType,
              uploadFailed |-> failed # {},
              reason |-> IF failed = {} THEN "" ELSE res[Max(failed)].reason,
              key |-> IF res[0].error THEN Undefined ELSE KeyOf(i),
              thumbnailKey |-> ~res[0].error /\ files[i].mediaType = "video"
                                 /\ u.thumbnailKey,
              dims |-> ~res[0].error /\ u.dims]

\* ---------------------------------------------------------------- progress

\* Math.ceil(a / b) for whole numbers a >= 0, b > 0
CeilDiv(a, b) == (a + b - 1) \div b

\* updateChunkUploadProgress: the snapshot after uploadedPartsCount parts. For
\* totalParts below 20, and for 101 and 102, the double (count / totalParts)
\* * 100 has the ceiling of the exact quotient.
updateChunkUploadProgress(i, uploadedPartsCount) ==
    [status |-> "uploading",
     totalParts |-> totalParts(files[i].fileSize),
     uploadedParts |-> uploadedPartsCount,
     percentComplete |-> CeilDiv(uploadedPartsCount * 100, totalParts(files[i].fileSize)),
     uploadedBytes |-> uploadedPartsCount * partSize(files[i].fileSize),
     totalBytes |-> files[i].fileSize]

\* uploadFile: {uploadCompleted: true, totalBytes, uploadedBytes, percentComplete: 100}
CompletedProgress(i) ==
    [status |-> "completed", totalParts |-> Undefined, uploadedParts |-> Undefined,
     percentComplete |-> 100, uploadedBytes |-> files[i].fileSize,
     totalBytes |-> files[i].fileSize]

\* a variant whose failed snapshot resets the percent to 0
FailedProgressZeroPercent(i) ==
    [status |-> "failed", totalParts |-> Undefined, uploadedParts |-> Undefined,
     percentComplete |-> 0, uploadedBytes |-> 0,
     totalBytes |-> files[i].fileSize]

\* uploadFile: {uploadFailed: true, totalBytes}
FailedProgress(i) ==
    [status |-> "failed", totalParts |-> Undefined, uploadedParts |-> Undefined,
     percentComplete |-> Undefined, uploadedBytes |-> Undefined,
     totalBytes |-> files[i].fileSize]

\* the sum of f[0] .. f[n - 1]
RECURSIVE SumTo(_, _)
SumTo(f, n) == IF n = 0 THEN 0 ELSE SumTo(f, n - 1) + f[n - 1]
Sum(f) == SumTo(f, length(f))

\* Math.min(Math.ceil((uploaded / total) * 100), 100), or 0 for no bytes; the
\* quotient is taken digit by digit to stay in 32 bits
overallPercentComplete(uploaded, total) ==
    IF total > 0
    THEN LET d1 == (uploaded * 10) \div total
             r1 == (uploaded * 10) % total
             d2 == (r1 * 10) \div total
             r2 == (r1 * 10) % total
         IN  Min(d1 * 10 + d2 + (IF r2 > 0 THEN 1 ELSE 0), 100)
    ELSE 0

\* uploadMultipleFiles: the aggregate over the chunked files; fileSizeMap is
\* keyed by fileIndex, the last file of an index setting its size
chunkedTotalProgress(b) ==
    LET res == b.filePool.results
        fileSizeMap(v) ==
            files[chunkedFiles[Max({k \in DOMAIN chunkedFiles :
                                      files[chunkedFiles[k]].fileIndex = v})]].fileSize
        totalBytes == Sum([k \in DOMAIN chunkedFiles |-> files[chunkedFiles[k]].fileSize])
        totalUploadedBytes ==
            Sum([k \in DOMAIN res |->
                    IF res[k].uploadFailed THEN 0 ELSE fileSizeMap(res[k].fileIndex)])
    IN  [overallPercentComplete |-> overallPercentComplete(totalUploadedBytes, totalBytes),
         totalUploadedBytes |-> totalUploadedBytes,
         resultsKnown |-> Cardinality(DOMAIN res)]

\* a variant that counts the size of every result, failed or not
totalProgressOfCountsFailed(list) ==
    LET find(v) == files[CHOOSE j \in DOMAIN files :
                            /\ files[j].fileIndex = v
                            /\ \A h \in DOMAIN files : files[h].fileIndex = v => j <= h]
        totalBytes == Sum([j \in DOMAIN files |-> files[j].fileSize])
        totalUploadedBytes ==
            Sum([j \in DOMAIN list |-> find(list[j].fileIndex).fileSize])
    IN  [overallPercentComplete |-> overallPercentComplete(totalUploadedBytes, totalBytes),
         totalUploadedBytes |-> totalUploadedBytes,
         resultsKnown |-> Cardinality(DOMAIN list)]

\* uploadFiles: the aggregate over the results; files.find takes the first
\* file of an index
totalProgressOf(list) ==
    LET find(v) == files[CHOOSE j \in DOMAIN files :
                            /\ files[j].fileIndex = v
                            /\ \A h \in DOMAIN files : files[h].fileIndex = v => j <= h]
        totalBytes == Sum([j \in DOMAIN files |-> files[j].fileSize])
        totalUploadedBytes ==
            Sum([j \in DOMAIN list |->
                    IF list[j].uploadFailed THEN 0 ELSE find(list[j].fileIndex).fileSize])
    IN  [overallPercentComplete |-> overallPercentComplete(totalUploadedBytes, totalBytes),
         totalUploadedBytes |-> totalUploadedBytes,
         resultsKnown |-> Cardinality(DOMAIN list)]

\* config.onTotalProgress(progress)
onTotalProgress(b, progress) == [b EXCEPT !.totalProgress = Append(@, progress)]

\* config.onProgress(fileIndex, progress)
onProgress(b, i, progress) == [b EXCEPT !.up[i].progress = Append(@, progress)]

\* ------------------------------------------------------------- the batch
\* The variables an operation of the batch may change, as one record.
Cur ==
    [phase |-> phase, rejection |-> rejection, filePool |-> filePool,
     simplePool |-> simplePool, up |-> up, resultMap |-> resultMap,
     results |-> results, totalProgress |-> totalProgress]

Commit(b) ==
    /\ phase' = b.phase
    /\ rejection' = b.rejection
    /\ filePool' = b.filePool
    /\ simplePool' = b.simplePool
    /\ up' = b.up
    /\ resultMap' = b.resultMap
    /\ results' = b.results
    /\ totalProgress' = b.totalProgress

\* resultMap.set(result.fileIndex, result) for each result of a list, in order
SetAll(map, list) ==
    [v \in (DOMAIN map) \cup {list[k].fileIndex : k \in DOMAIN list} |->
        IF \E k \in DOMAIN list : list[k].fileIndex = v
        THEN list[Max({k \in DOMAIN list : list[k].fileIndex = v})]
        ELSE map[v]]

\* uploadFiles, the end: the results in the order of the input, a placeholder
\* for an index the map lacks
Merge(b) ==
    LET list == [i \in DOMAIN files |->
                    IF files[i].fileIndex \in DOMAIN b.resultMap
                    THEN b.resultMap[files[i].fileIndex]
                    ELSE FailedResult(i, "Upload result not found")]
    IN  [onTotalProgress(b, totalProgressOf(list)) EXCEPT
            !.results = list,
            !.phase = "resolved"]

\* uploadFiles, the simple phase: one getUploadUrl({uploadType: "simple"}) per
\* simple file, all at once (Promise.all)
SimplePhaseStarts(b) ==
    [b EXCEPT
        !.up = [i \in DOMAIN files |->
                   IF \E k \in DOMAIN simpleFiles : simpleFiles[k] = i
                   THEN [b.up[i] EXCEPT !.stage = "sUrl", !.reqSimple = @ + 1]
                   ELSE b.up[i]],
        !.phase = "simpleUrls"]

\* a variant that leaves the chunked results out of resultMap
ChunkedPhaseEndsWithoutSet(b) ==
    LET c == onTotalProgress(b, chunkedTotalProgress(b))
    IN  IF DOMAIN simpleFiles # {} THEN SimplePhaseStarts(c) ELSE Merge(c)

\* uploadFiles after uploadMultipleFiles returned: the chunked results enter
\* resultMap, then the simple phase or the merge
ChunkedPhaseEnds(b) ==
    LET c == [onTotalProgress(b, chunkedTotalProgress(b)) EXCEPT
                 !.resultMap = SetAll(b.resultMap, b.filePool.results)]
    IN  IF DOMAIN simpleFiles # {} THEN SimplePhaseStarts(c) ELSE Merge(c)

\* uploadFile up to its first await, for every chunked file the pool has
\* handed to the mapper: the size check fails the file at once, otherwise
\* getSignedUrls is called.
RECURSIVE StartDispatched(_)
StartDispatched(b) ==
    LET waiting == {k \in b.filePool.executing : b.up[chunkedFiles[k]].stage = "idle"}
    IN  IF waiting = {}
        THEN b
        ELSE LET k == CHOOSE x \in waiting : \A y \in waiting : x <= y
                 i == chunkedFiles[k]
             IN  IF sizeLimitExceeded(files[i].fileSize)
                 THEN StartDispatched(
                          [onProgress(b, i, FailedProgress(i)) EXCEPT
                              !.up[i].stage = "done",
                              !.filePool = mapperResolved(
                                  b.filePool, length(chunkedFiles), concurrentFileLimit, k,
                                  FailedResult(i, "File size is greater than the maximum"))])
                 ELSE StartDispatched(
                          [b EXCEPT !.up[i].stage = "session",
                                    !.up[i].reqChunked = @ + 1,
                                    !.up[i].sentTotalParts =
                                        totalParts(files[i].fileSize)])

\* uploadFile returned result for file i: the file pool stores it, hands the
\* next files to the mapper and, once every file has returned, resolves.
FileReturns(b, i, result) ==
    LET c == StartDispatched(
                 [b EXCEPT
                     !.up[i].stage = "done",
                     !.filePool = mapperResolved(
                         b.filePool, length(chunkedFiles), concurrentFileLimit,
                         IndexOf(chunkedFiles, i), result)])
    IN  IF c.filePool.outcome = "resolved" THEN ChunkedPhaseEnds(c) ELSE c

\* a variant without the catch block: the error leaves uploadFile, the file
\* pool rejects and uploadMultipleFiles rethrows
uploadFileCatchRethrows(b, i, reason) ==
    [b EXCEPT
        !.up[i].stage = "done",
        !.filePool = mapperRejected(
            b.filePool, length(chunkedFiles), concurrentFileLimit,
            IndexOf(chunkedFiles, i), [kind |-> reason, index |-> i]),
        !.phase = IF @ \in {"resolved", "rejected"} THEN @ ELSE "rejected",
        !.rejection = IF b.phase \in {"resolved", "rejected"}
                      THEN @ ELSE "Media upload error"]

\* uploadFile, the catch block: a failed snapshot and a failed result
uploadFileCatch(b, i, reason) ==
    FileReturns(onProgress(b, i, FailedProgress(i)), i, FailedResult(i, reason))

\* a variant that calls markUploadComplete whatever the chunks' outcomes
AfterThumbAlwaysCompletes(b, i) ==
    LET u == b.up[i]
        res == u.pool.results
        parts == {k \in DOMAIN res : res[k].eTag # ""}
    IN  IF parts # {}
        THEN [b EXCEPT !.up[i].stage = "mark",
                       !.up[i].markCalls = @ + 1,
                       !.up[i].markParts = [k \in 1 .. Cardinality(parts) |->
                                               res[Ordered(parts)[k - 1]].partNumber],
                       !.up[i].markKey = KeyOf(i)]
        ELSE FileReturns(b, i, formattedResponse(i, u))

\* a variant with one keyAndUploadId for all the files of the batch: the
\* completion call names the session of the highest file that has one
AfterThumbSharedSession(b, i) ==
    LET u == b.up[i]
        res == u.pool.results
        uploadFailed == \E k \in DOMAIN res : res[k].error
        parts == {k \in DOMAIN res : res[k].eTag # ""}
        shared == Max({j \in DOMAIN files : b.up[j].session \in {"ok", "short"}})
    IN  IF ~uploadFailed /\ DOMAIN res # {}
        THEN IF parts # {}
             THEN [b EXCEPT !.up[i].stage = "mark",
                            !.up[i].markCalls = @ + 1,
                            !.up[i].markParts = [k \in 1 .. Cardinality(parts) |->
                                                    res[Ordered(parts)[k - 1]].partNumber],
                            !.up[i].markKey = KeyOf(shared)]
             ELSE FileReturns(b, i, formattedResponse(i, u))
        ELSE FileReturns(onProgress(b, i, FailedProgress(i)), i, formattedResponse(i, u))

\* uploadFile after readAndUploadFileAsChunks returned its responses: with no
\* failed response, markUploadComplete is called with the parts that carry an
\* ETag (if any, and nothing is reported if none); with a failed response, or
\* no response, a failed snapshot is reported. Then the result is formatted.
AfterThumb(b, i) ==
    LET u == b.up[i]
        res == u.pool.results
        uploadFailed == \E k \in DOMAIN res : res[k].error
        parts == {k \in DOMAIN res : res[k].eTag # ""}
    IN  IF ~uploadFailed /\ DOMAIN res # {}
        THEN IF parts # {}
             THEN [b EXCEPT !.up[i].stage = "mark",
                            !.up[i].markCalls = @ + 1,
                            !.up[i].markParts = [k \in 1 .. Cardinality(parts) |->
                                                    res[Ordered(parts)[k - 1]].partNumber],
                            !.up[i].markKey = KeyOf(i)]
             ELSE FileReturns(b, i, formattedResponse(i, u))
        ELSE FileReturns(onProgress(b, i, FailedProgress(i)), i, formattedResponse(i, u))

\* readAndUploadFileAsChunks: the thumbnail upload of a video, if there is a
\* thumbnail path and a getThumbnailSignedUrl
ThumbUpload(b, i) ==
    IF b.up[i].thumbPath /\ config.getThumbnailSignedUrl
    THEN [b EXCEPT !.up[i].stage = "thumbUrl"]
    ELSE AfterThumb(b, i)

\* readAndUploadFileAsChunks after mapConcurrent returned the chunk outcomes:
\* a video generates or uploads its thumbnail, a photo probes its dimensions
AfterChunks(b, i) ==
    IF files[i].mediaType = "video"
    THEN IF ~files[i].thumbnailPath
         THEN [b EXCEPT !.up[i].stage = "gen"]
         ELSE ThumbUpload([b EXCEPT !.up[i].thumbPath = TRUE], i)
    ELSE [b EXCEPT !.up[i].stage = "dims"]

\* readAndUploadFileAsChunks after getSignedUrls resolved with urls URLs: the
\* tasks are planned and handed to mapConcurrent under the chunk limit
ChunksStart(b, i, urls) ==
    LET n == Len(uploadTasks(files[i].fileSize))
        pool == mapConcurrent(n, concurrentChunkLimit)
    IN  CASE pool.outcome = "rejected" ->
                uploadFileCatch(b, i, pool.error.kind)
          [] pool.outcome = "resolved" ->
                AfterChunks([b EXCEPT !.up[i].urls = urls, !.up[i].pool = pool], i)
          [] OTHER ->
                [b EXCEPT !.up[i].stage = "chunks", !.up[i].urls = urls,
                          !.up[i].pool = pool]

\* --------------------------------------------------------- the simple phase

AllSimple(b, stage) ==
    \A k \in DOMAIN simpleFiles : b.up[simpleFiles[k]].stage = stage

\* the simple files a step of simplePool hands to uploadSimpleFile
SimpleDispatch(b, pool) ==
    [b EXCEPT
        !.simplePool = pool,
        !.up = [i \in DOMAIN files |->
                   IF /\ \E k \in Dispatched(b.simplePool, pool) : simpleFiles[k] = i
                      /\ b.up[i].stage = "sUrlDone"
                   THEN [b.up[i] EXCEPT !.stage = "sPut"]
                   ELSE b.up[i]]]

\* uploadFiles rejects, unless it is settled already
Rejects(b, reason) ==
    IF b.phase \in {"resolved", "rejected"}
    THEN b
    ELSE [b EXCEPT !.phase = "rejected", !.rejection = reason]

\* uploadFiles once every simple URL is known: uploadMultipleSimpleFiles runs
\* uploadSimpleFile over the simple files under the file limit
SimplePutsStart(b) ==
    LET pool == mapConcurrent(length(simpleFiles), concurrentFileLimit)
    IN  IF pool.outcome = "rejected"
        THEN Rejects([b EXCEPT !.simplePool = pool], pool.error.kind)
        ELSE SimpleDispatch([b EXCEPT !.phase = "simplePuts"], pool)

\* uploadFiles once every simple PUT has returned: per simple file, all at
\* once (Promise.all), the dimension probe is called
SimplePostStarts(b) ==
    [b EXCEPT
        !.up = [i \in DOMAIN files |->
                   IF \E k \in DOMAIN simpleFiles : simpleFiles[k] = i
                   THEN [b.up[i] EXCEPT !.stage = "sDims"]
                   ELSE b.up[i]],
        !.phase = "simplePost"]

\* resultMap.set for a simple file; the merge once every simple file is set
SimpleSet(b, i) ==
    LET c == [b EXCEPT
                 !.up[i].stage = "sDone",
                 !.resultMap = Put(@, files[i].fileIndex,
                     [fileIndex |-> files[i].fileIndex,
                      mediaType |-> files[i].mediaType,
                      uploadFailed |-> FALSE, reason |-> "", key |-> KeyOf(i),
                      thumbnailKey |-> b.up[i].thumbnailKey,
                      dims |-> b.up[i].dims])]
    IN  IF c.phase = "simplePost" /\ AllSimple(c, "sDone") THEN Merge(c) ELSE c

\* the thumbnail upload of a simple video, if there is a thumbnail path and a
\* getThumbnailSignedUrl
SimpleThumb(b, i) ==
    IF b.up[i].thumbPath /\ config.getThumbnailSignedUrl
    THEN [b EXCEPT !.up[i].stage = "sThumbUrl"]
    ELSE SimpleSet(b, i)

\* ------------------------------------------------------------------ actions

Fault(o) ==
    /\ Nominal(o) \/ faults < MaxFaults
    /\ faults' = IF Nominal(o) THEN faults ELSE faults + 1

Constant == UNCHANGED <<files, config>> /\ UNCHANGED mcVars

\* a variant that starts the simple phase together with the chunked one
UploadFilesCallPhasesTogether ==
    /\ phase = "idle"
    /\ LET pool == mapConcurrent(length(chunkedFiles), concurrentFileLimit)
           b == StartDispatched([Cur EXCEPT !.filePool = pool])
       IN  Commit(
             CASE DOMAIN files = {} -> [Cur EXCEPT !.phase = "resolved"]
               [] DOMAIN chunkedFiles = {} -> SimplePhaseStarts(Cur)
               [] pool.outcome = "rejected" ->
                     Rejects([Cur EXCEPT !.filePool = pool], "Media upload error")
               [] b.filePool.outcome = "resolved" -> ChunkedPhaseEnds(b)
               [] OTHER -> [SimplePhaseStarts(b) EXCEPT !.phase = "chunked"])
    /\ UNCHANGED faults
    /\ Constant

\* uploadFiles(files, config) is called
UploadFilesCall ==
    /\ phase = "idle"
    /\ LET pool == mapConcurrent(length(chunkedFiles), concurrentFileLimit)
           b == StartDispatched([Cur EXCEPT !.filePool = pool])
       IN  Commit(
             CASE DOMAIN files = {} -> [Cur EXCEPT !.phase = "resolved"]
               [] DOMAIN chunkedFiles = {} -> SimplePhaseStarts(Cur)
               [] pool.outcome = "rejected" ->
                     Rejects([Cur EXCEPT !.filePool = pool], "Media upload error")
               [] b.filePool.outcome = "resolved" -> ChunkedPhaseEnds(b)
               [] OTHER -> [b EXCEPT !.phase = "chunked"])
    /\ UNCHANGED faults
    /\ Constant

\* getSignedUrls settles for chunked file i
SessionSettles(i, o) ==
    /\ up[i].stage = "session"
    /\ o = "short" => totalParts(files[i].fileSize) >= 2
    /\ Fault(o)
    /\ LET b == [Cur EXCEPT !.up[i].session = o]
       IN  Commit(
             CASE o = "ok" -> ChunksStart(b, i, totalParts(files[i].fileSize))
               [] o = "short" -> ChunksStart(b, i, totalParts(files[i].fileSize) - 1)
               [] o = "empty" -> uploadFileCatch(b, i, "Signed URLs not found")
               [] o = "invalid" ->
                     uploadFileCatch(b, i, "Invalid response for chunked upload")
               [] OTHER -> uploadFileCatch(b, i, "getUploadUrl rejected"))
    /\ Constant

\* readAndUploadChunk for task k of file i: unless the read of the bytes
\* failed or there is no URL, a PUT of task.partNumber went to
\* urls[partNumber - 1]
chunkPut(b, i, k, o) ==
    LET partNumber == uploadTasks(files[i].fileSize)[k + 1].partNumber
        sent == IF partNumber \in DOMAIN b.up[i].puts
                THEN b.up[i].puts[partNumber] ELSE <<>>
    IN  IF o \in {"read", "nourl"}
        THEN b
        ELSE [b EXCEPT !.up[i].puts = Put(@, partNumber, Append(sent, partNumber))]

\* a variant that sends a chunk again after a PUT that failed
ChunkSettlesRetries(i, k, o) ==
    /\ up[i].stage = "chunks"
    /\ IF k + 1 > up[i].urls
       THEN o = "nourl" /\ UNCHANGED faults
       ELSE o \in ChunkOutcomes /\ Fault(o)
    /\ LET pool == chunkSettled(up[i].pool, Len(uploadTasks(files[i].fileSize)), k, o)
           count == up[i].uploadedPartsCount + 1
           b == IF o \in {"etag", "noetag"}
                THEN onProgress([Cur EXCEPT !.up[i].pool = pool,
                                            !.up[i].uploadedPartsCount = count],
                                i, updateChunkUploadProgress(i, count))
                ELSE IF o \in {"status", "network"}
                THEN Cur
                ELSE [Cur EXCEPT !.up[i].pool = pool,
                                 !.up[i].firstReason =
                                     IF @ = "" THEN ChunkReason(o) ELSE @]
       IN  Commit(IF b.up[i].pool.outcome = "resolved"
                  THEN AfterChunks(chunkPut(b, i, k, o), i)
                  ELSE chunkPut(b, i, k, o))
    /\ Constant

\* a variant with one uploaded-parts counter for all the files
ChunkSettlesSharedCounter(i, k, o) ==
    /\ up[i].stage = "chunks"
    /\ IF k + 1 > up[i].urls
       THEN o = "nourl" /\ UNCHANGED faults
       ELSE o \in ChunkOutcomes /\ Fault(o)
    /\ LET pool == chunkSettled(up[i].pool, Len(uploadTasks(files[i].fileSize)), k, o)
           count == Sum([j \in DOMAIN files |-> up[j].uploadedPartsCount]) + 1
           b == IF o \in {"etag", "noetag"}
                THEN onProgress([Cur EXCEPT !.up[i].pool = pool,
                                            !.up[i].uploadedPartsCount = @ + 1],
                                i, updateChunkUploadProgress(i, count))
                ELSE [Cur EXCEPT !.up[i].pool = pool,
                                 !.up[i].firstReason =
                                     IF @ = "" THEN ChunkReason(o) ELSE @]
       IN  Commit(IF pool.outcome = "resolved"
                  THEN AfterChunks(chunkPut(b, i, k, o), i)
                  ELSE chunkPut(b, i, k, o))
    /\ Constant

\* readAndUploadChunk settles for part k + 1 of file i; a part without a URL
\* (urls[partNumber - 1] undefined) can only fail
ChunkSettles(i, k, o) ==
    /\ up[i].stage = "chunks"
    /\ IF k + 1 > up[i].urls
       THEN o = "nourl" /\ UNCHANGED faults
       ELSE o \in ChunkOutcomes /\ Fault(o)
    /\ LET pool == chunkSettled(up[i].pool, Len(uploadTasks(files[i].fileSize)), k, o)
           count == up[i].uploadedPartsCount + 1
           b == IF o \in {"etag", "noetag"}
                THEN onProgress([Cur EXCEPT !.up[i].pool = pool,
                                            !.up[i].uploadedPartsCount = count],
                                i, updateChunkUploadProgress(i, count))
                ELSE [Cur EXCEPT !.up[i].pool = pool,
                                 !.up[i].firstReason =
                                     IF @ = "" THEN ChunkReason(o) ELSE @]
       IN  Commit(IF pool.outcome = "resolved"
                  THEN AfterChunks(chunkPut(b, i, k, o), i)
                  ELSE chunkPut(b, i, k, o))
    /\ Constant

\* generateVideoThumbnail settles for chunked video i
GenSettles(i, o) ==
    /\ up[i].stage = "gen"
    /\ Fault(o)
    /\ LET b == [Cur EXCEPT !.up[i].gen = o]
       IN  Commit(
             CASE o = "path" -> ThumbUpload([b EXCEPT !.up[i].thumbPath = TRUE], i)
               [] o = "null" -> ThumbUpload(b, i)
               [] OTHER -> uploadFileCatch(b, i, "Failed to generate video thumbnail"))
    /\ Constant

\* uploadThumbnail: getThumbnailSignedUrl settles and the bytes are read
ThumbUrlSettles(i, o) ==
    /\ up[i].stage = "thumbUrl"
    /\ Fault(o)
    /\ Commit(IF o = "ok"
              THEN [Cur EXCEPT !.up[i].stage = "thumbPut"]
              ELSE AfterThumb([Cur EXCEPT !.up[i].failedSteps = @ \cup {"thumbUrl"}], i))
    /\ Constant

\* a variant in which the error of uploadThumbnail is not caught
ThumbPutSettlesUncaught(i, o) ==
    /\ up[i].stage = "thumbPut"
    /\ Fault(o)
    /\ Commit(IF o = "ok"
              THEN [Cur EXCEPT !.up[i].stage = "thumbDims"]
              ELSE uploadFileCatch([Cur EXCEPT !.up[i].failedSteps = @ \cup {"thumbPut"}],
                                   i, "Thumbnail upload error"))
    /\ Constant

\* uploadThumbnail: the PUT of the thumbnail settles
ThumbPutSettles(i, o) ==
    /\ up[i].stage = "thumbPut"
    /\ Fault(o)
    /\ Commit(IF o = "ok"
              THEN [Cur EXCEPT !.up[i].stage = "thumbDims"]
              ELSE AfterThumb([Cur EXCEPT !.up[i].failedSteps = @ \cup {"thumbPut"}], i))
    /\ Constant

\* getImageSize(finalThumbnailPath) settles
ThumbDimsSettles(i, o) ==
    /\ up[i].stage = "thumbDims"
    /\ Fault(o)
    /\ Commit(AfterThumb([Cur EXCEPT !.up[i].thumbnailKey = TRUE,
                                     !.up[i].dims = (o = "ok"),
                                     !.up[i].failedSteps =
                                         IF o = "ok" THEN @ ELSE @ \cup {"dims"}], i))
    /\ Constant

\* getImageSize(filePath) settles for chunked photo i
DimsSettles(i, o) ==
    /\ up[i].stage = "dims"
    /\ Fault(o)
    /\ Commit(AfterThumb([Cur EXCEPT !.up[i].dims = (o = "ok"),
                                     !.up[i].failedSteps =
                                         IF o = "ok" THEN @ ELSE @ \cup {"dims"}], i))
    /\ Constant

\* a variant that reports the completed snapshot before it looks at the
\* outcome of markUploadComplete
MarkSettlesReportsFirst(i, o) ==
    /\ up[i].stage = "mark"
    /\ Fault(o)
    /\ LET b == onProgress([Cur EXCEPT !.up[i].mark = o], i, CompletedProgress(i))
       IN  Commit(IF o = "ok"
                  THEN FileReturns(b, i, formattedResponse(i, up[i]))
                  ELSE uploadFileCatch(b, i, "markUploadComplete rejected"))
    /\ Constant

\* markUploadComplete settles for file i
MarkSettles(i, o) ==
    /\ up[i].stage = "mark"
    /\ Fault(o)
    /\ LET b == [Cur EXCEPT !.up[i].mark = o]
       IN  Commit(IF o = "ok"
                  THEN FileReturns(onProgress(b, i, CompletedProgress(i)), i,
                                   formattedResponse(i, up[i]))
                  ELSE uploadFileCatch(b, i, "markUploadComplete rejected"))
    /\ Constant

\* getUploadUrl({uploadType: "simple"}) settles for simple file i
SimpleUrlSettles(i, o) ==
    /\ up[i].stage = "sUrl"
    /\ Fault(o)
    /\ LET b == [Cur EXCEPT !.up[i].stage = IF o = "ok" THEN "sUrlDone" ELSE "sFailed"]
       IN  Commit(
             CASE o = "invalid" -> Rejects(b, "Invalid response for simple upload")
               [] o = "reject" -> Rejects(b, "getUploadUrl rejected")
               [] OTHER -> IF b.phase = "simpleUrls" /\ AllSimple(b, "sUrlDone")
                           THEN SimplePutsStart(b)
                           ELSE b)
    /\ Constant

\* uploadSimpleFile settles for simple file i
SimplePutSettles(i, o) ==
    /\ up[i].stage = "sPut"
    /\ Fault(o)
    /\ LET k == IndexOf(simpleFiles, i)
           b == [Cur EXCEPT !.up[i].stage = IF o = "ok" THEN "sPutDone" ELSE "sFailed"]
           pool == IF o = "ok"
                   THEN mapperResolved(simplePool, length(simpleFiles),
                                       concurrentFileLimit, k, [status |-> 200])
                   ELSE mapperRejected(simplePool, length(simpleFiles),
                                       concurrentFileLimit, k,
                                       [kind |-> ChunkReason(o), index |-> k])
           c == SimpleDispatch(b, pool)
       IN  Commit(
             CASE simplePool.outcome = "pending" /\ pool.outcome = "resolved" ->
                     SimplePostStarts(c)
               [] simplePool.outcome = "pending" /\ pool.outcome = "rejected" ->
                     Rejects(c, pool.error.kind)
               [] OTHER -> c)
    /\ Constant

\* getImageSize(file.filePath) settles for simple file i
SimpleDimsSettles(i, o) ==
    /\ up[i].stage = "sDims"
    /\ Fault(o)
    /\ LET b == [Cur EXCEPT !.up[i].dims = (o = "ok"),
                             !.up[i].failedSteps =
                                 IF o = "ok" THEN @ ELSE @ \cup {"dims"}]
       IN  Commit(
             IF files[i].mediaType = "video"
             THEN IF ~files[i].thumbnailPath
                  THEN [b EXCEPT !.up[i].stage = "sGen"]
                  ELSE SimpleThumb([b EXCEPT !.up[i].thumbPath = TRUE], i)
             ELSE SimpleSet(b, i))
    /\ Constant

\* generateVideoThumbnail settles for simple video i
SimpleGenSettles(i, o) ==
    /\ up[i].stage = "sGen"
    /\ Fault(o)
    /\ LET b == [Cur EXCEPT !.up[i].gen = o]
       IN  Commit(
             CASE o = "path" -> SimpleThumb([b EXCEPT !.up[i].thumbPath = TRUE], i)
               [] o = "null" -> SimpleThumb(b, i)
               [] OTHER -> Rejects([b EXCEPT !.up[i].stage = "sFailed"],
                                   "Failed to generate video thumbnail"))
    /\ Constant

\* getThumbnailSignedUrl settles for simple video i and the bytes are read;
\* thumbnailKey is assigned as soon as the URL is known
SimpleThumbUrlSettles(i, o) ==
    /\ up[i].stage = "sThumbUrl"
    /\ Fault(o)
    /\ Commit(
         CASE o = "ok" -> [Cur EXCEPT !.up[i].thumbnailKey = TRUE,
                                      !.up[i].stage = "sThumbPut"]
           [] o = "read" ->
                 SimpleSet([Cur EXCEPT !.up[i].thumbnailKey = TRUE,
                                       !.up[i].failedSteps = @ \cup {"thumbUrl"}], i)
           [] OTHER ->
                 SimpleSet([Cur EXCEPT !.up[i].failedSteps = @ \cup {"thumbUrl"}], i))
    /\ Constant

\* the PUT of the thumbnail settles for simple video i; its status is not read
SimpleThumbPutSettles(i, o) ==
    /\ up[i].stage = "sThumbPut"
    /\ Fault(o)
    /\ Commit(SimpleSet([Cur EXCEPT !.up[i].failedSteps =
                                        IF o = "ok" THEN @ ELSE @ \cup {"thumbPut"}], i))
    /\ Constant

\* ------------------------------------------------------------ the batches

\* the sizes of the input files: under the default threshold, and two parts
\* of the default chunk size
FileSizes == {3 * 1024 * 1024, 10000000}
\* media kind and whether a thumbnail path is given
FileKinds ==
    {[mediaType |-> "photo", thumbnailPath |-> FALSE],
     [mediaType |-> "video", thumbnailPath |-> FALSE],
     [mediaType |-> "video", thumbnailPath |-> TRUE]}
\* the fileIndex values of n files: ascending, descending, all equal
FileIndexings(n) ==
    {[i \in 0 .. (n - 1) |-> i], [i \in 0 .. (n - 1) |-> n - 1 - i],
     [i \in 0 .. (n - 1) |-> 0]}
Configs ==
    [chunkThresholdBytes : {Undefined, 3 * 1024 * 1024},
     chunkSize : {Undefined},
     concurrentFileUploadLimit : {Undefined, 1, -1},
     concurrentChunkUploadLimit : {Undefined},
     maxFileSizeMB : {Undefined, 5},
     getThumbnailSignedUrl : BOOLEAN]

MCUnused ==
    /\ items = <<>>
    /\ concurrency = 0
    /\ mc = NotCalled
    /\ invoked = <<>>
    /\ settled = <<>>
    /\ settleOrder = <<>>

Init ==
    /\ \E n \in 0 .. MaxFiles :
         \E size \in [0 .. (n - 1) -> FileSizes], kind \in [0 .. (n - 1) -> FileKinds],
            index \in FileIndexings(n) :
             files = [i \in 0 .. (n - 1) |->
                         [fileIndex |-> index[i], fileSize |-> size[i],
                          mediaType |-> kind[i].mediaType,
                          thumbnailPath |-> kind[i].thumbnailPath]]
    /\ config \in Configs
    /\ phase = "idle"
    /\ rejection = ""
    /\ filePool = NotCalled
    /\ simplePool = NotCalled
    /\ up = [i \in DOMAIN files |-> IdleFile]
    /\ resultMap = <<>>
    /\ results = <<>>
    /\ totalProgress = <<>>
    /\ faults = 0
    /\ MCUnused

Next ==
    \/ UploadFilesCall
    \/ \E i \in DOMAIN files, o \in SessionOutcomes : SessionSettles(i, o)
    \/ \E i \in DOMAIN files, o \in ChunkOutcomes \cup {"nourl"} :
          \E k \in up[i].pool.executing : ChunkSettles(i, k, o)
    \/ \E i \in DOMAIN files, o \in GenOutcomes : GenSettles(i, o)
    \/ \E i \in DOMAIN files, o \in ThumbUrlOutcomes : ThumbUrlSettles(i, o)
    \/ \E i \in DOMAIN files, o \in PutOutcomes : ThumbPutSettles(i, o)
    \/ \E i \in DOMAIN files, o \in DimsOutcomes : ThumbDimsSettles(i, o)
    \/ \E i \in DOMAIN files, o \in DimsOutcomes : DimsSettles(i, o)
    \/ \E i \in DOMAIN files, o \in MarkOutcomes : MarkSettles(i, o)
    \/ \E i \in DOMAIN files, o \in SimpleUrlOutcomes : SimpleUrlSettles(i, o)
    \/ \E i \in DOMAIN files, o \in SimplePutOutcomes : SimplePutSettles(i, o)
    \/ \E i \in DOMAIN files, o \in DimsOutcomes : SimpleDimsSettles(i, o)
    \/ \E i \in DOMAIN files, o \in GenOutcomes : SimpleGenSettles(i, o)
    \/ \E i \in DOMAIN files, o \in ThumbUrlOutcomes : SimpleThumbUrlSettles(i, o)
    \/ \E i \in DOMAIN files, o \in PutOutcomes : SimpleThumbPutSettles(i, o)

Spec == Init /\ [][Next]_vars

\* ------------------------------------------------------- one chunked file

\* one part of exactly the default chunk size, or p parts the last of which
\* is shorter
PartSizes ==
    {DEFAULT_CHUNK_SIZE} \cup {q * DEFAULT_CHUNK_SIZE - MiB : q \in 2 .. MaxParts}
FileConfigs ==
    [chunkThresholdBytes : {Undefined},
     chunkSize : {Undefined},
     concurrentFileUploadLimit : {Undefined},
     concurrentChunkUploadLimit : {Undefined, 1, 2},
     maxFileSizeMB : {Undefined},
     getThumbnailSignedUrl : BOOLEAN]

InitFile ==
    /\ \E size \in PartSizes, kind \in FileKinds :
         files = [i \in {0} |->
                     [fileIndex |-> 0, fileSize |-> size,
                      mediaType |-> kind.mediaType,
                      thumbnailPath |-> kind.thumbnailPath]]
    /\ config \in FileConfigs
    /\ phase = "idle"
    /\ rejection = ""
    /\ filePool = NotCalled
    /\ simplePool = NotCalled
    /\ up = [i \in DOMAIN files |-> IdleFile]
    /\ resultMap = <<>>
    /\ results = <<>>
    /\ totalProgress = <<>>
    /\ faults = 0
    /\ MCUnused

NextFile ==
    \/ UploadFilesCall
    \/ \E i \in DOMAIN files, o \in SessionOutcomes : SessionSettles(i, o)
    \/ \E i \in DOMAIN files, o \in ChunkOutcomes \cup {"nourl"} :
          \E k \in up[i].pool.executing : ChunkSettles(i, k, o)
    \/ \E i \in DOMAIN files, o \in GenOutcomes : GenSettles(i, o)
    \/ \E i \in DOMAIN files, o \in ThumbUrlOutcomes : ThumbUrlSettles(i, o)
    \/ \E i \in DOMAIN files, o \in PutOutcomes : ThumbPutSettles(i, o)
    \/ \E i \in DOMAIN files, o \in DimsOutcomes : ThumbDimsSettles(i, o)
    \/ \E i \in DOMAIN files, o \in DimsOutcomes : DimsSettles(i, o)
    \/ \E i \in DOMAIN files, o \in MarkOutcomes : MarkSettles(i, o)

SpecFile == InitFile /\ [][NextFile]_vars

\* -------------------------------------------- one file at the size limit

\* sizes around 6 MiB: 5 MiB, the last size whose two decimals read 5.99, the
\* first that reads 6.00, one byte under 6 MiB, 6 MiB, and 7 MiB
LimitSizes ==
    {5 * MiB, 6 * MiB - 5243, 6 * MiB - 5242, 6 * MiB - 1, 6 * MiB, 7 * MiB}
LimitConfigs ==
    [chunkThresholdBytes : {Undefined},
     chunkSize : {Undefined},
     concurrentFileUploadLimit : {Undefined},
     concurrentChunkUploadLimit : {Undefined},
     maxFileSizeMB : {Undefined, 5, 6},
     getThumbnailSignedUrl : BOOLEAN]

InitSize ==
    /\ \E size \in LimitSizes, kind \in FileKinds :
         files = [i \in {0} |->
                     [fileIndex |-> 0, fileSize |-> size,
                      mediaType |-> kind.mediaType,
                      thumbnailPath |-> kind.thumbnailPath]]
    /\ config \in LimitConfigs
    /\ phase = "idle"
    /\ rejection = ""
    /\ filePool = NotCalled
    /\ simplePool = NotCalled
    /\ up = [i \in DOMAIN files |-> IdleFile]
    /\ resultMap = <<>>
    /\ results = <<>>
    /\ totalProgress = <<>>
    /\ faults = 0
    /\ MCUnused

SpecSize == InitSize /\ [][NextFile]_vars

\* ------------------------------------------------ one file, every plan

\* a photo of 1 .. MaxBytes bytes, every chunk size up to one byte more, a
\* threshold of 0 so that the file goes the chunked way
PlanConfigs ==
    [chunkThresholdBytes : {0},
     chunkSize : 1 .. (MaxBytes + 1),
     concurrentFileUploadLimit : {Undefined},
     concurrentChunkUploadLimit : {Undefined, 1, 2},
     maxFileSizeMB : {Undefined},
     getThumbnailSignedUrl : {FALSE}]

InitPlan ==
    /\ \E size \in 1 .. MaxBytes :
         files = [i \in {0} |->
                     [fileIndex |-> 0, fileSize |-> size, mediaType |-> "photo",
                      thumbnailPath |-> FALSE]]
    /\ config \in PlanConfigs
    /\ phase = "idle"
    /\ rejection = ""
    /\ filePool = NotCalled
    /\ simplePool = NotCalled
    /\ up = [i \in DOMAIN files |-> IdleFile]
    /\ resultMap = <<>>
    /\ results = <<>>
    /\ totalProgress = <<>>
    /\ faults = 0
    /\ MCUnused

\* the steps of a chunked photo
NextPlan ==
    \/ UploadFilesCall
    \/ \E i \in DOMAIN files, o \in SessionOutcomes : SessionSettles(i, o)
    \/ \E i \in DOMAIN files, o \in ChunkOutcomes \cup {"nourl"} :
          \E k \in up[i].pool.executing : ChunkSettles(i, k, o)
    \/ \E i \in DOMAIN files, o \in DimsOutcomes : DimsSettles(i, o)
    \/ \E i \in DOMAIN files, o \in MarkOutcomes : MarkSettles(i, o)

SpecPlan == InitPlan /\ [][NextPlan]_vars

\* ------------------------------------------- small limits, mixed batches

\* file and chunk limits of 1 and 2 over batches of chunked and simple files
\* of every kind, with a thumbnail provider
WriteConfigs ==
    [chunkThresholdBytes : {Undefined},
     chunkSize : {Undefined},
     concurrentFileUploadLimit : {1, 2},
     concurrentChunkUploadLimit : {1, 2},
     maxFileSizeMB : {Undefined},
     getThumbnailSignedUrl : {TRUE}]

InitWrites ==
    /\ \E n \in 1 .. MaxFiles :
         \E size \in [0 .. (n - 1) -> FileSizes], kind \in [0 .. (n - 1) -> FileKinds] :
             files = [i \in 0 .. (n - 1) |->
                         [fileIndex |-> i, fileSize |-> size[i],
                          mediaType |-> kind[i].mediaType,
                          thumbnailPath |-> kind[i].thumbnailPath]]
    /\ config \in WriteConfigs
    /\ phase = "idle"
    /\ rejection = ""
    /\ filePool = NotCalled
    /\ simplePool = NotCalled
    /\ up = [i \in DOMAIN files |-> IdleFile]
    /\ resultMap = <<>>
    /\ results = <<>>
    /\ totalProgress = <<>>
    /\ faults = 0
    /\ MCUnused

SpecWrites == InitWrites /\ [][Next]_vars

\* ---------------------------------------- many parts, and files together

\* one-byte parts: a photo of 3 parts alone, a photo of 101 parts alone
\* whose calls all succeed, or photos of 2 or 3 parts side by side
CountConfigs ==
    [chunkThresholdBytes : {0},
     chunkSize : {1},
     concurrentFileUploadLimit : {Undefined},
     concurrentChunkUploadLimit : {1, 2},
     maxFileSizeMB : {Undefined},
     getThumbnailSignedUrl : {FALSE}]

InitCount ==
    /\ \E n \in 1 .. MaxFiles :
         \E size \in [0 .. (n - 1) -> IF n = 1 THEN {3, 101} ELSE {2, 3}] :
             /\ files = [i \in 0 .. (n - 1) |->
                            [fileIndex |-> i, fileSize |-> size[i],
                             mediaType |-> "photo", thumbnailPath |-> FALSE]]
             /\ faults = IF n = 1 /\ size[0] = 101 THEN MaxFaults ELSE 0
    /\ config \in CountConfigs
    /\ phase = "idle"
    /\ rejection = ""
    /\ filePool = NotCalled
    /\ simplePool = NotCalled
    /\ up = [i \in DOMAIN files |-> IdleFile]
    /\ resultMap = <<>>
    /\ results = <<>>
    /\ totalProgress = <<>>
    /\ MCUnused

SpecCount == InitCount /\ [][NextPlan]_vars

\* ------------------------------------------- photos of very unlike sizes

\* an empty file, a file one byte under the threshold, a file of the
\* threshold, and a file a thousand times the threshold
TotalSizes == {0, 999, 1000, 1000000}
TotalConfigs ==
    [chunkThresholdBytes : {1000},
     chunkSize : {Undefined},
     concurrentFileUploadLimit : {Undefined},
     concurrentChunkUploadLimit : {Undefined},
     maxFileSizeMB : {Undefined},
     getThumbnailSignedUrl : {FALSE}]

InitTotal ==
    /\ \E n \in 0 .. MaxFiles :
         \E size \in [0 .. (n - 1) -> TotalSizes], index \in FileIndexings(n) :
             files = [i \in 0 .. (n - 1) |->
                         [fileIndex |-> index[i], fileSize |-> size[i],
                          mediaType |-> "photo", thumbnailPath |-> FALSE]]
    /\ config \in TotalConfigs
    /\ phase = "idle"
    /\ rejection = ""
    /\ filePool = NotCalled
    /\ simplePool = NotCalled
    /\ up = [i \in DOMAIN files |-> IdleFile]
    /\ resultMap = <<>>
    /\ results = <<>>
    /\ totalProgress = <<>>
    /\ faults = 0
    /\ MCUnused

\* the steps of chunked and simple photos
NextTotal ==
    \/ UploadFilesCall
    \/ \E i \in DOMAIN files, o \in SessionOutcomes : SessionSettles(i, o)
    \/ \E i \in DOMAIN files, o \in ChunkOutcomes \cup {"nourl"} :
          \E k \in up[i].pool.executing : ChunkSettles(i, k, o)
    \/ \E i \in DOMAIN files, o \in DimsOutcomes : DimsSettles(i, o)
    \/ \E i \in DOMAIN files, o \in MarkOutcomes : MarkSettles(i, o)
    \/ \E i \in DOMAIN files, o \in SimpleUrlOutcomes : SimpleUrlSettles(i, o)
    \/ \E i \in DOMAIN files, o \in SimplePutOutcomes : SimplePutSettles(i, o)
    \/ \E i \in DOMAIN files, o \in DimsOutcomes : SimpleDimsSettles(i, o)

SpecTotal == InitTotal /\ [][NextTotal]_vars

\* ------------------------------------------ a file of no bytes, chunked

\* an empty file and a file of one byte, both sent the chunked way by a
\* threshold of 0
ZeroSizes == {0, 1}
ZeroConfigs ==
    [chunkThresholdBytes : {0},
     chunkSize : {Undefined},
     concurrentFileUploadLimit : {Undefined},
     concurrentChunkUploadLimit : {Undefined, 1},
     maxFileSizeMB : {Undefined},
     getThumbnailSignedUrl : BOOLEAN]

InitZero ==
    /\ \E size \in ZeroSizes, kind \in FileKinds :
         files = [i \in {0} |->
                     [fileIndex |-> 0, fileSize |-> size,
                      mediaType |-> kind.mediaType,
                      thumbnailPath |-> kind.thumbnailPath]]
    /\ config \in ZeroConfigs
    /\ phase = "idle"
    /\ rejection = ""
    /\ filePool = NotCalled
    /\ simplePool = NotCalled
    /\ up = [i \in DOMAIN files |-> IdleFile]
    /\ resultMap = <<>>
    /\ results = <<>>
    /\ totalProgress = <<>>
    /\ faults = 0
    /\ MCUnused

SpecZero == InitZero /\ [][NextFile]_vars

\* ------------------------------------------------- claims on uploadFiles

Settled == phase \in {"resolved", "rejected"}

\* the rejections of uploadFiles that report a configuration error or a
\* provider response of the wrong shape
ConfigOrContractRejections ==
    {"Media upload error", ConcurrencyError.kind, "Invalid response for simple upload"}

\* what uploadFile returned for chunked file i, once it has returned
FileResultOf(i) == filePool.results[IndexOf(chunkedFiles, i)]

FailedChunks(i) == {k \in DOMAIN up[i].pool.results : up[i].pool.results[k].error}

\* C1: a settled call on a non-empty list of N files has resolved with N
\* results, result i carrying the fileIndex of input file i (a rejection for a
\* configuration error or a provider response of the wrong shape apart).
C1_OneResultPerInputInOrder ==
    (/\ DOMAIN files # {}
     /\ Settled
     /\ ~(phase = "rejected" /\ rejection \in ConfigOrContractRejections))
        => /\ phase = "resolved"
           /\ DOMAIN results = DOMAIN files
           /\ \A i \in DOMAIN files : results[i].fileIndex = files[i].fileIndex

\* C2: uploadFiles rejects only for a configuration error or a provider
\* response of the wrong shape; when it resolves there is one result per input
\* file and a file one of whose chunk PUTs failed has a failed result with a
\* reason.
C2_NeverRejectsForFileFailure ==
    /\ phase = "rejected" => rejection \in ConfigOrContractRejections
    /\ phase = "resolved" =>
          /\ DOMAIN results = DOMAIN files
          /\ \A i \in DOMAIN files :
                FailedChunks(i) # {} =>
                    (results[i].uploadFailed /\ results[i].reason # "")

\* C8: a chunked file that passed the size check, got a URL for every part and
\* whose chunk PUTs all returned 200 has a result that is not failed, and
\* markUploadComplete was called once with the parts 1 .. totalParts (a file
\* whose thumbnail generation threw or whose completion call was rejected
\* apart).
C8_AllChunksOkCompletes ==
    \A i \in DOMAIN files :
        LET u == up[i]
            n == totalParts(files[i].fileSize)
        IN  (/\ isChunked(files[i].fileSize)
             /\ u.stage = "done"
             /\ u.urls = n
             /\ DOMAIN u.pool.results = 0 .. (n - 1)
             /\ FailedChunks(i) = {}
             /\ FileResultOf(i).reason \notin
                    {"Failed to generate video thumbnail", "markUploadComplete rejected"})
                => /\ ~FileResultOf(i).uploadFailed
                   /\ u.markCalls = 1
                   /\ {u.markParts[k] : k \in DOMAIN u.markParts} = 1 .. n

\* C9: once a chunk of a file has failed, markUploadComplete is not called
\* for the file, now or later, and the result of the file is a failed one,
\* in what uploadFile returns and in what uploadFiles returns.
C9_AnyChunkFailureFailsFile ==
    \A i \in DOMAIN files :
        FailedChunks(i) # {}
            => /\ up[i].markCalls = 0
               /\ up[i].stage # "mark"
               /\ up[i].stage = "done" => FileResultOf(i).uploadFailed
               /\ phase = "resolved" => results[i].uploadFailed

\* a file of several parts whose first part failed and whose last part was
\* uploaded with an ETag, after uploadFiles has resolved
C9_Witness ==
    \E i \in DOMAIN files :
        LET res == up[i].pool.results
            n == totalParts(files[i].fileSize)
        IN  /\ phase = "resolved"
            /\ n >= 2
            /\ DOMAIN res = 0 .. (n - 1)
            /\ res[0].error
            /\ res[n - 1].eTag # ""

\* the simple phase of the call has started: uploadMultipleFiles did not
\* reject
SimplePhaseReached ==
    \/ phase \in {"simpleUrls", "simplePuts", "simplePost", "resolved"}
    \/ phase = "rejected" /\ filePool.outcome # "rejected"

SimpleStages ==
    {"sUrl", "sUrlDone", "sPut", "sPutDone", "sDims", "sGen", "sThumbUrl",
     "sThumbPut", "sDone", "sFailed"}

\* C10 as stated: once the call has settled, a file at or above the threshold
\* has had no simple request, and a file below it has had exactly one simple
\* request, no chunked request, no chunk fan-out and no completion call.
C10_ExactlyOneSimpleRequest ==
    Settled =>
        \A i \in DOMAIN files :
            IF files[i].fileSize >= chunkThreshold
            THEN up[i].reqSimple = 0
            ELSE /\ up[i].reqSimple = 1
                 /\ up[i].reqChunked = 0
                 /\ up[i].pool = NotCalled
                 /\ up[i].markCalls = 0

\* C10, amended: a file at or above the threshold never has a simple request
\* and is on no stage of the simple path, and its chunks and its completion
\* call follow one chunked request; a file below the threshold never has a
\* chunked request, a chunk fan-out or a completion call, and it has one
\* simple request from the start of the simple phase on, none before.
C10_StrategySwitch ==
    \A i \in DOMAIN files :
        IF files[i].fileSize >= chunkThreshold
        THEN /\ up[i].reqSimple = 0
             /\ up[i].stage \notin SimpleStages
             /\ up[i].reqChunked <= 1
             /\ (up[i].pool # NotCalled \/ up[i].markCalls > 0) => up[i].reqChunked = 1
        ELSE /\ up[i].reqChunked = 0
             /\ up[i].pool = NotCalled
             /\ up[i].markCalls = 0
             /\ up[i].reqSimple = IF SimplePhaseReached THEN 1 ELSE 0

\* a resolved call on a file of exactly the threshold, completed the chunked
\* way, and a file below the threshold, uploaded the simple way
C10_Witness ==
    /\ phase = "resolved"
    /\ \E i, j \in DOMAIN files :
          /\ files[i].fileSize >= chunkThreshold
          /\ up[i].reqChunked = 1
          /\ up[i].markCalls = 1
          /\ files[j].fileSize < chunkThreshold
          /\ up[j].reqSimple = 1
          /\ up[j].stage = "sDone"

\* uploadFile has run its size check on file i
SizeChecked(i) == isChunked(files[i].fileSize) /\ up[i].stage # "idle"

\* C11: a file whose size in whole megabytes (the integer part of
\* size / 2^20) exceeds the maximum ends failed for its size, with one failed
\* snapshot and no request, chunk, thumbnail step or completion call; any
\* other file has its session requested.
C11_SizeCheckInWholeMegabytes ==
    \A i \in DOMAIN files :
        SizeChecked(i) =>
            IF files[i].fileSize \div MiB > maxFileSizeMB
            THEN /\ up[i].stage = "done"
                 /\ FileResultOf(i).uploadFailed
                 /\ FileResultOf(i).reason = "File size is greater than the maximum"
                 /\ up[i].progress = <<FailedProgress(i)>>
                 /\ up[i].reqChunked = 0
                 /\ up[i].pool = NotCalled
                 /\ up[i].gen = "none"
                 /\ up[i].failedSteps = {}
                 /\ ~up[i].thumbnailKey
                 /\ up[i].markCalls = 0
            ELSE up[i].reqChunked = 1

\* the lengths of the first n tasks of a plan, summed
RECURSIVE LengthsTo(_, _)
LengthsTo(tasks, n) == IF n = 0 THEN 0 ELSE LengthsTo(tasks, n - 1) + tasks[n].length

\* C12: the chunk pool of a file never rejects; the tasks handed to the
\* mapper are the first ones of the plan, each either in flight or with one
\* outcome under its own part number, a failure carrying a reason; once the
\* pool has resolved every one of the T tasks has its outcome.
C12_ChunkFailureIsData ==
    \A i \in DOMAIN files :
        LET pool == up[i].pool
            T == Len(uploadTasks(files[i].fileSize))
        IN  (isChunked(files[i].fileSize) /\ pool # NotCalled)
                => /\ pool.outcome # "rejected"
                   /\ pool.executing \cap DOMAIN pool.results = {}
                   /\ pool.executing \cup DOMAIN pool.results = 0 .. (pool.index - 1)
                   /\ \A k \in DOMAIN pool.results :
                         /\ pool.results[k].partNumber = k + 1
                         /\ pool.results[k].error => pool.results[k].reason # ""
                   /\ up[i].stage # "chunks" => DOMAIN pool.results = 0 .. (T - 1)

\* the scenario of five tasks under a bound of 2 in which part 3 alone fails:
\* five outcomes, one failure, a failed file
C12_Witness ==
    \E i \in DOMAIN files :
        LET res == up[i].pool.results
        IN  /\ concurrentChunkLimit = 2
            /\ Len(uploadTasks(files[i].fileSize)) = 5
            /\ up[i].stage = "done"
            /\ DOMAIN res = 0 .. 4
            /\ {k \in DOMAIN res : res[k].error} = {2}
            /\ res[2].partNumber = 3
            /\ \A k \in {0, 1, 3, 4} : res[k].eTag # ""
            /\ FileResultOf(i).uploadFailed

\* C19: for a size S and a chunk size C, with partSize = min(C, S), the plan
\* has ceil(S / partSize) tasks numbered 1, 2, ... in order, each starting
\* where the one before ends, all of length partSize but the last, of length
\* 1 .. partSize; the lengths sum to S, and the totalParts of the session
\* request is the number of tasks.
C19_PlanPartitionsFile ==
    \A i \in DOMAIN files :
        LET S == files[i].fileSize
            P == IF chunkSize < S THEN chunkSize ELSE S
            tasks == uploadTasks(S)
            n == Len(tasks)
        IN  (S >= 1 /\ chunkSize >= 1 /\ isChunked(S))
                => /\ n = (S + P - 1) \div P
                   /\ totalParts(S) = n
                   /\ \A k \in 1 .. n :
                         /\ tasks[k].partNumber = k
                         /\ tasks[k].position = LengthsTo(tasks, k - 1)
                         /\ k < n => tasks[k].length = P
                   /\ tasks[n].length \in 1 .. P
                   /\ LengthsTo(tasks, n) = S
                   /\ up[i].stage # "idle" => up[i].sentTotalParts = n
                   /\ \A k \in DOMAIN up[i].pool.results :
                         up[i].pool.results[k].partNumber = tasks[k + 1].partNumber

\* a file of 5 bytes in chunks of 2: three tasks, the last of one byte, the
\* session requested for three parts and every part uploaded
C19_Witness ==
    \E i \in DOMAIN files :
        /\ files[i].fileSize = 5
        /\ chunkSize = 2
        /\ Len(uploadTasks(5)) = 3
        /\ uploadTasks(5)[3].length = 1
        /\ up[i].sentTotalParts = 3
        /\ up[i].stage = "done"
        /\ up[i].uploadedPartsCount = 3

SessionFailures == {"reject", "empty", "invalid"}

\* C13, the states: the file pool rejects for an invalid limit only, and when
\* it resolves every chunked file has its own result; a rejected call was
\* rejected for the limit or by a file of the simple phase; a file whose
\* session request was rejected or came back without URLs has no chunk PUT
\* and no completion call and ends failed with a reason; a file whose
\* completion call was rejected ends failed.
C13_FailureStaysInFile ==
    /\ filePool.outcome = "rejected" => concurrentFileLimit <= 0
    /\ filePool.outcome = "resolved" =>
          /\ DOMAIN filePool.results = DOMAIN chunkedFiles
          /\ \A k \in DOMAIN chunkedFiles :
                filePool.results[k].fileIndex = files[chunkedFiles[k]].fileIndex
    /\ phase = "rejected" =>
          \/ filePool.outcome = "rejected"
          \/ simplePool.outcome = "rejected"
          \/ \E j \in DOMAIN files : up[j].stage = "sFailed"
    /\ \A i \in DOMAIN files :
          /\ up[i].session \in SessionFailures =>
                /\ up[i].pool = NotCalled
                /\ up[i].markCalls = 0
                /\ up[i].stage = "done"
                /\ FileResultOf(i).uploadFailed
                /\ FileResultOf(i).reason # ""
          /\ up[i].mark = "reject" =>
                /\ up[i].stage = "done"
                /\ FileResultOf(i).uploadFailed

\* C13, the steps: the step in which a session request or a completion call
\* of file i fails leaves every other file that has started as it is, and
\* does not reject the call.
C13_OthersUntouched ==
    \A i \in DOMAIN files :
        (\/ up[i].session = "none" /\ up'[i].session \in SessionFailures
         \/ up[i].mark = "none" /\ up'[i].mark = "reject")
            => /\ phase' # "rejected"
               /\ \A j \in DOMAIN files \ {i} :
                     up[j].stage # "idle" => up'[j] = up[j]

\* C13: session-request and completion failures fail the owning file only.
C13_SessionAndCompletionFailuresAreLocal ==
    []C13_FailureStaysInFile /\ [][C13_OthersUntouched]_vars

\* a resolved call on two chunked files: the session request of one was
\* rejected, the other was completed and is not failed
C13_Witness ==
    /\ phase = "resolved"
    /\ \E i, j \in DOMAIN files :
          /\ up[i].session = "reject"
          /\ results[i].uploadFailed
          /\ files[i].fileIndex # files[j].fileIndex
          /\ up[j].mark = "ok"
          /\ ~results[j].uploadFailed

\* every part of chunked file i was uploaded and carries an ETag
AllPartsUploaded(i) ==
    /\ DOMAIN up[i].pool.results = 0 .. (totalParts(files[i].fileSize) - 1)
    /\ \A k \in DOMAIN up[i].pool.results : up[i].pool.results[k].eTag # ""

\* C14, the states: a chunked file that has returned a failed result has a
\* cause other than a thumbnail or probe step (its size, its session, a
\* chunk, the thumbnail generator or the completion call); a file whose parts
\* were all uploaded has its completion call as soon as the thumbnail and
\* probe steps are over, whatever their outcomes; a simple file whose probe
\* or thumbnail steps are over has a result that is not failed.
C14_NoFailureFromBestEffort ==
    \A i \in DOMAIN files :
        /\ (isChunked(files[i].fileSize) /\ up[i].stage = "done"
                /\ FileResultOf(i).uploadFailed)
              => \/ sizeLimitExceeded(files[i].fileSize)
                 \/ up[i].session \in SessionFailures
                 \/ FailedChunks(i) # {}
                 \/ up[i].gen = "throw"
                 \/ up[i].mark = "reject"
        /\ (isChunked(files[i].fileSize) /\ AllPartsUploaded(i)
                /\ up[i].stage \in {"mark", "done"} /\ up[i].gen # "throw")
              => up[i].markCalls = 1
        /\ up[i].stage = "sDone" =>
              /\ files[i].fileIndex \in DOMAIN resultMap
              /\ ~resultMap[files[i].fileIndex].uploadFailed

\* C14, the steps: the step in which a thumbnail signed-URL request, a
\* thumbnail PUT or a dimension probe of file i fails does not reject the
\* call and does not end the file's pipeline in an error.
C14_StepDoesNotReject ==
    \A i \in DOMAIN files :
        up'[i].failedSteps # up[i].failedSteps
            => /\ phase' = "rejected" => phase = "rejected"
               /\ up'[i].stage # "sFailed"
               /\ up'[i].stage = "done" =>
                     (filePool'.results[IndexOf(chunkedFiles, i)].uploadFailed
                          => FailedChunks(i) # {})

\* C14: thumbnail signed-URL request, thumbnail PUT and dimension probe are
\* best-effort in the chunked and in the simple pipeline.
C14_BestEffortSteps ==
    []C14_NoFailureFromBestEffort /\ [][C14_StepDoesNotReject]_vars

\* a resolved call on a chunked video whose thumbnail PUT failed and a simple
\* video whose thumbnail request failed: the first was completed, neither is
\* failed
C14_Witness ==
    /\ phase = "resolved"
    /\ \E i, j \in DOMAIN files :
          /\ isChunked(files[i].fileSize)
          /\ "thumbPut" \in up[i].failedSteps
          /\ up[i].markCalls = 1
          /\ ~results[i].uploadFailed
          /\ ~isChunked(files[j].fileSize)
          /\ "thumbUrl" \in up[j].failedSteps
          /\ ~results[j].uploadFailed

\* C15: for a video without a supplied thumbnail path, a generator outcome
\* other than a path (null for a missing capability, a throw for a failed
\* generation) does not fail the upload: once the file has returned, a file
\* whose parts were all uploaded had its completion call and, unless that
\* call was rejected, its result is not failed.
C15_GeneratorNeverFailsUpload ==
    \A i \in DOMAIN files :
        (up[i].gen \in {"null", "throw"} /\ up[i].stage = "done"
             /\ AllPartsUploaded(i) /\ up[i].mark # "reject")
           => /\ up[i].markCalls = 1
              /\ ~FileResultOf(i).uploadFailed

\* C16: with an overall-progress callback configured, a call of uploadFiles
\* on a batch of at least one file that has resolved has invoked the callback
\* exactly once, and that invocation was computed from the results of all
\* the files of the batch.
C16_TotalProgressOnceAfterAll ==
    (phase = "resolved" /\ DOMAIN files # {}) =>
        /\ Len(totalProgress) = 1
        /\ totalProgress[1].resultsKnown = Cardinality(DOMAIN files)

\* C17: of any two snapshots delivered to onProgress for one file that carry
\* a percent, the later one carries a percent at least as large, whatever
\* the order in which the chunks of this file and of the other files settle.
C17_PercentNonDecreasing ==
    \A i \in DOMAIN files :
        \A a, b \in DOMAIN up[i].progress :
            (a < b /\ up[i].progress[a].percentComplete # Undefined
                   /\ up[i].progress[b].percentComplete # Undefined)
               => up[i].progress[a].percentComplete
                      <= up[i].progress[b].percentComplete

\* two chunked files uploaded side by side: one went through 50, 100 and the
\* completed snapshot, the other got 50 and then its failed snapshot
C17_Witness ==
    \E i, j \in DOMAIN files :
        /\ i # j
        /\ Len(up[i].progress) = 3
        /\ up[i].progress[1].percentComplete = 50
        /\ up[i].progress[2].percentComplete = 100
        /\ up[i].progress[3].status = "completed"
        /\ Len(up[j].progress) = 2
        /\ up[j].progress[1].percentComplete = 50
        /\ up[j].progress[2].status = "failed"

\* the positions of the snapshots of file i whose status is in the set
Snapshots(i, statuses) ==
    {a \in DOMAIN up[i].progress : up[i].progress[a].status \in statuses}

\* C18: onProgress has been invoked with a chunk snapshot once for every
\* chunk of the file that has settled, with success or with failure, and a
\* chunked file that has returned, completed or failed, has delivered exactly
\* one terminal snapshot.
C18_SnapshotPerOutcomeAndOneTerminal ==
    \A i \in DOMAIN files :
        /\ Cardinality(Snapshots(i, {"uploading"}))
               = Cardinality(DOMAIN up[i].pool.results)
        /\ up[i].stage = "done"
               => Cardinality(Snapshots(i, {"completed", "failed"})) = 1

\* C20, the states: with a bound 1 <= N < length the queue path is taken and
\* exactly N invocations are outstanding as long as an input is undispatched;
\* with N unbounded or N >= length every input is dispatched by the call.
C20_InFlight ==
    (Called /\ length(items) > 0 /\ concurrency >= 1)
        => IF concurrency < length(items)
           THEN /\ mc.path = "bounded"
                /\ mc.index < length(items)
                      => Cardinality(Outstanding) = concurrency
           ELSE /\ mc.path = "all"
                /\ \A i \in DOMAIN items : invoked[i] = 1

\* C20, the steps: on the queue path, the step in which an invocation settles
\* while an input is undispatched also dispatches the lowest undispatched
\* index, and nothing else.
C20_RefillOnSettle ==
    (mc.path = "bounded" /\ mc.index < length(items)
         /\ settleOrder' # settleOrder)
        => /\ mc'.index = mc.index + 1
           /\ \A j \in DOMAIN items :
                 invoked'[j] = IF j = mc.index THEN invoked[j] + 1 ELSE invoked[j]

C20_WitnessAll ==
    /\ mc.path = "all"
    /\ concurrency = 3
    /\ settleOrder = <<>>
    /\ Outstanding = {0, 1, 2}

\* C21: the failed result of a file whose chunks failed carries the reason of
\* the chunk that was seen to fail first (a file whose thumbnail generation
\* threw afterwards apart).
C21_FirstFailureReason ==
    \A i \in DOMAIN files :
        (up[i].stage = "done" /\ FailedChunks(i) # {} /\ up[i].gen # "throw")
            => FileResultOf(i).reason = up[i].firstReason

\* the stages in which a call of the thumbnail-and-dimensions step of a
\* chunked file is outstanding: generateVideoThumbnail, getThumbnailSignedUrl,
\* the thumbnail PUT, getImageSize of the thumbnail, getImageSize of a photo
ThumbnailStages == {"gen", "thumbUrl", "thumbPut", "thumbDims", "dims"}

\* C22: a chunked file has a call of its thumbnail-and-dimensions step
\* outstanding only if none of its chunks failed.
C22_ThumbnailStepOnlyAfterSuccess ==
    \A i \in DOMAIN files :
        up[i].stage \in ThumbnailStages => FailedChunks(i) = {}

\* C23: the order of the pipeline of a chunked file. A file that fails the
\* size check never requests a session; while the session request is
\* outstanding no chunk task exists; markUploadComplete is called only once
\* every chunk task has returned and no call of the thumbnail-and-dimensions
\* step is outstanding; the completed snapshot exists only once
\* markUploadComplete has resolved, and is the last snapshot of the file.
C23_PipelineOrder ==
    \A i \in DOMAIN files :
        LET u == up[i]
            n == totalParts(files[i].fileSize)
            completed == Snapshots(i, {"completed"})
        IN  /\ completed # {} => (u.mark = "ok" /\ u.markCalls = 1
                                    /\ completed = {Len(u.progress)})
            /\ u.mark = "reject" => completed = {}
            /\ (isChunked(files[i].fileSize) /\ sizeLimitExceeded(files[i].fileSize))
                  => (u.reqChunked = 0 /\ u.session = "none" /\ u.pool = NotCalled
                         /\ u.markCalls = 0)
            /\ u.stage = "session" => (u.pool = NotCalled /\ u.progress = <<>>)
            /\ u.pool # NotCalled => u.session \in {"ok", "short"}
            /\ u.markCalls > 0
                  => /\ DOMAIN u.pool.results = 0 .. (n - 1)
                     /\ u.pool.executing = {}
                     /\ u.stage \in {"mark", "done"}

\* a two-part video that went through every stage: session, both chunks,
\* thumbnail upload and probe, completion call, completed snapshot
C23_Witness ==
    \E i \in DOMAIN files :
        /\ totalParts(files[i].fileSize) = 2
        /\ up[i].stage = "done"
        /\ up[i].thumbnailKey
        /\ up[i].mark = "ok"
        /\ Len(up[i].progress) = 3
        /\ up[i].progress[3].status = "completed"

\* a file over the limit: failed at the size check with nothing requested
C23_WitnessSizeCheck ==
    \E i \in DOMAIN files :
        /\ sizeLimitExceeded(files[i].fileSize)
        /\ up[i].stage = "done"
        /\ up[i].reqChunked = 0

\* a rejected completion call: no completed snapshot
C23_WitnessRejected ==
    \E i \in DOMAIN files :
        /\ up[i].mark = "reject"
        /\ up[i].stage = "done"
        /\ Snapshots(i, {"failed"}) # {}

\* the network writes of file i that may be outstanding: the PUTs of the chunk
\* tasks in flight, the whole-file PUT, the thumbnail PUT
WritesOf(i) ==
    CASE up[i].stage = "chunks" -> Cardinality(up[i].pool.executing)
      [] up[i].stage \in {"thumbPut", "sPut", "sThumbPut"} -> 1
      [] OTHER -> 0
OutstandingWrites == Sum([i \in DOMAIN files |-> WritesOf(i)])

\* C24: with limits of at least 1, at every instant of a batch the number of
\* outstanding network writes is at most fileLimit x chunkLimit.
C24_WritesWithinProduct ==
    (concurrentFileLimit >= 1 /\ concurrentChunkLimit >= 1)
        => OutstandingWrites <= concurrentFileLimit * concurrentChunkLimit

\* the files whose pipeline has started (its signed-URL request was issued)
\* and has not yet produced its result or its error
InPipeline ==
    {i \in DOMAIN files : up[i].stage \notin {"idle", "done", "sDone", "sFailed"}}

\* C25: with a file limit of at least 1, at every instant the number of
\* files, chunked or simple, that are inside their pipeline is at most the
\* file limit.
C25_PipelinesWithinFileLimit ==
    concurrentFileLimit >= 1 => Cardinality(InPipeline) <= concurrentFileLimit

\* no two input files carry the same fileIndex
DistinctIndexes ==
    \A i, j \in DOMAIN files : files[i].fileIndex = files[j].fileIndex => i = j

\* what uploadFiles gave to onTotalProgress before it returned
FinalTotalProgress == totalProgress[Len(totalProgress)]
\* the bytes requested, and the bytes of the files whose result is not failed
RequestedBytes == Sum([i \in DOMAIN files |-> files[i].fileSize])
NonFailedBytes ==
    Sum([i \in DOMAIN files |-> IF results[i].uploadFailed THEN 0 ELSE files[i].fileSize])
\* the sum and the rounded-up, capped percent of the aggregate
AggregateAsStated ==
    /\ FinalTotalProgress.totalUploadedBytes = NonFailedBytes
    /\ FinalTotalProgress.overallPercentComplete =
          IF RequestedBytes = 0
          THEN 0
          ELSE Min(CeilDiv(NonFailedBytes * 100, RequestedBytes), 100)
NoBytesFailed ==
    \A i \in DOMAIN files : results[i].uploadFailed => files[i].fileSize = 0

C26_WitnessHalf ==
    /\ phase = "resolved"
    /\ DistinctIndexes
    /\ RequestedBytes = 2000
    /\ FinalTotalProgress.overallPercentComplete = 50

\* nothing but empty files: 0
C26_WitnessNoBytes ==
    /\ phase = "resolved"
    /\ Cardinality(DOMAIN files) = 2
    /\ DistinctIndexes
    /\ RequestedBytes = 0
    /\ FinalTotalProgress.overallPercentComplete = 0

\* the pipeline of file i has run to its end and its result is in resultMap
Finished(i) ==
    /\ up[i].stage \in {"done", "sDone"}
    /\ files[i].fileIndex \in DOMAIN resultMap

\* the stages in which a collaborator call of the file is outstanding
AwaitingStages ==
    {"session", "chunks", "gen", "thumbUrl", "thumbPut", "thumbDims", "dims", "mark",
     "sUrl", "sPut", "sDims", "sGen", "sThumbUrl", "sThumbPut"}
CallsOutstanding == {i \in DOMAIN files : up[i].stage \in AwaitingStages}

\* C27: once uploadFiles was called and every collaborator call that was made
\* has settled, the call of uploadFiles has settled and the pipeline of
\* every input file has run to its end, with its result recorded.
C27_EveryPipelineFinishes ==
    (phase # "idle" /\ CallsOutstanding = {})
        => (Settled /\ \A i \in DOMAIN files : Finished(i))

\* C28: when uploadFiles resolves for files of pairwise distinct indexes, no
\* result is the placeholder 'Upload result not found': the result at an
\* input's position is the one its own pipeline recorded in resultMap.
C28_NoPlaceholder ==
    (phase = "resolved" /\ DistinctIndexes)
        => \A i \in DOMAIN files :
              /\ results[i].reason # "Upload result not found"
              /\ files[i].fileIndex \in DOMAIN resultMap
              /\ results[i] = resultMap[files[i].fileIndex]
              /\ results[i].fileIndex = files[i].fileIndex
              /\ IF isChunked(files[i].fileSize)
                 THEN up[i].stage = "done" /\ results[i] = FileResultOf(i)
                 ELSE up[i].stage = "sDone" /\ results[i].key = KeyOf(i)

\* a chunked and a simple file given in descending index order, both merged
C28_Witness ==
    /\ phase = "resolved"
    /\ Cardinality(DOMAIN files) = 2
    /\ files[0].fileIndex = 1
    /\ files[1].fileIndex = 0
    /\ isChunked(files[0].fileSize)
    /\ ~isChunked(files[1].fileSize)
    /\ ~results[0].uploadFailed
    /\ results[1].key = KeyOf(1)

\* the 'uploading' snapshots of file i, in the order they were given
UploadingSnapshots(i) ==
    SelectSeq(up[i].progress, LAMBDA p : p.status = "uploading")
\* the chunks of file i that have succeeded so far
SucceededChunks(i) == (DOMAIN up[i].pool.results) \ FailedChunks(i)

\* the counter of a file counts its own succeeded chunks, one snapshot each,
\* and snapshot a carries a of totalParts and the rounded-up percent
CountsOwnChunks(i) ==
    LET ups == UploadingSnapshots(i)
        n == totalParts(files[i].fileSize)
    IN  /\ Len(ups) = Cardinality(SucceededChunks(i))
        /\ up[i].uploadedPartsCount = Len(ups)
        /\ Len(ups) <= n
        /\ \A a \in DOMAIN ups :
              /\ ups[a].uploadedParts = a
              /\ ups[a].totalParts = n
              /\ ups[a].percentComplete = (a * 100 + n - 1) \div n

C29_WitnessManyParts ==
    \E i \in DOMAIN files :
        /\ totalParts(files[i].fileSize) = 101
        /\ up[i].stage = "chunks"
        /\ Len(UploadingSnapshots(i)) = 100
        /\ UploadingSnapshots(i)[100].percentComplete = 100

\* a failed chunk between two successes: the counter steps from 1 to 2
C29_WitnessFailedChunk ==
    \E i \in DOMAIN files :
        /\ FailedChunks(i) = {1}
        /\ SucceededChunks(i) = {0, 2}
        /\ Len(UploadingSnapshots(i)) = 2

\* C30: the recorded result of a file carries a thumbnail key only if neither
\* the thumbnail signed-URL request (with the read of the thumbnail) nor the
\* thumbnail PUT of the file failed.
C30_ThumbnailKeyOnlyAfterPut ==
    \A i \in DOMAIN files :
        (Finished(i) /\ resultMap[files[i].fileIndex].thumbnailKey)
            => up[i].failedSteps \cap {"thumbUrl", "thumbPut"} = {}

\* C31: the parts handed to markUploadComplete are in strictly ascending
\* part-number order, whatever the order the chunk PUTs settled in and
\* whatever the chunk limit.
C31_MarkPartsAscending ==
    \A i \in DOMAIN files :
        up[i].markCalls > 0 =>
            \A j, k \in 1 .. Len(up[i].markParts) :
                j < k => up[i].markParts[j] < up[i].markParts[k]

\* a completion call for several parts that were uploaded two at a time
C31_Witness ==
    \E i \in DOMAIN files :
        /\ up[i].markCalls > 0
        /\ Len(up[i].markParts) >= 2
        /\ concurrentChunkLimit >= 2

\* a completion call that skips a part whose PUT returned no ETag
C31_WitnessSkipped ==
    \E i \in DOMAIN files :
        /\ up[i].markCalls > 0
        /\ up[i].markParts = <<1, 3>>

\* C32: a chunked file whose result is not failed had markUploadComplete
\* called for it, once, and the call resolved.
C32_NonFailedOnlyAfterCompletion ==
    \A i \in DOMAIN files :
        (/\ isChunked(files[i].fileSize)
         /\ up[i].stage = "done"
         /\ ~FileResultOf(i).uploadFailed)
            => (up[i].markCalls = 1 /\ up[i].mark = "ok")

\* the indices the mapper has been invoked for
Invoked == {i \in DOMAIN items : invoked[i] > 0}

\* no input is handed to the mapper twice, and an input is handed to it only
\* after every input of lower index
DispatchedOnceInOrder ==
    /\ \A i \in DOMAIN items : invoked[i] <= 1
    /\ \A i, j \in DOMAIN items : (i < j /\ j \in Invoked) => i \in Invoked

\* C33, as stated: every input is handed to the mapper exactly once, in
\* ascending index order, and once nothing is outstanding the number of
\* mapper invocations equals the input length, whatever the bound and
\* whether or not a mapper rejected.
C33_InvocationsEqualLength ==
    /\ (Called /\ Outstanding = {}) => Invoked = DOMAIN items
    /\ DispatchedOnceInOrder

\* C33, amended: for a bound N >= 1 every input is handed to the mapper
\* exactly once, in ascending index order; a mapper rejection stops neither
\* the invocations in flight nor the dispatch of the pending inputs, so once
\* nothing is outstanding the mapper has been invoked once per input. (With
\* N <= 0 and a non-empty input the mapper is never invoked.)
C33_ValidBoundMapsEachOnce ==
    /\ (Called /\ concurrency >= 1 /\ Outstanding = {}) => Invoked = DOMAIN items
    /\ DispatchedOnceInOrder

\* N = 1 of 3 inputs: the first invocation rejected, and the two inputs that
\* were pending then have been mapped since
C33_Witness ==
    /\ mc.path = "bounded"
    /\ concurrency = 1
    /\ length(items) = 3
    /\ settleOrder = <<0, 1, 2>>
    /\ settled[0] = "rejected"
    /\ \A i \in DOMAIN items : invoked[i] = 1

MCSettled == mc.outcome \in {"resolved", "rejected"}

\* C34, the states: for a bound N >= 1, mapConcurrent has resolved only if
\* every mapper invocation has resolved and every result slot is filled, and
\* it has settled once every input is dispatched and nothing is outstanding.
C34_ResolvesAfterLast ==
    (Called /\ length(items) > 0 /\ concurrency >= 1)
        => /\ mc.outcome = "resolved" =>
                 /\ \A i \in DOMAIN items : settled[i] = "resolved"
                 /\ DOMAIN mc.results = DOMAIN items
           /\ Outstanding = {} => MCSettled

\* C34: if every mapper invocation settles, mapConcurrent settles; when all
\* invocations resolve it resolves only after the last of them, with no
\* result slot unfilled, for every bound N >= 1 and every settle order.
C34_SettlesAfterAllSettle == []C34_ResolvesAfterLast /\ <>MCSettled

\* N = 2 of 3 inputs, all resolved, the first input last: resolved only then
C34_Witness ==
    /\ mc.path = "bounded"
    /\ concurrency = 2
    /\ settleOrder = <<1, 2, 0>>
    /\ mc.outcome = "resolved"
    /\ DOMAIN mc.results = 0 .. 2

\* C35: within one file no URL of the session receives more than one PUT, the
\* PUT to the k-th URL (urls[k - 1]) is the PUT of part k, and so each part
\* number is PUT at most once, chunk failures included.
C35_OnePutPerPartAndUrl ==
    \A i \in DOMAIN files :
        \A url \in DOMAIN up[i].puts :
            /\ up[i].puts[url] = <<url>>
            /\ url \in 1 .. up[i].urls

\* a file of several parts whose pipeline is over: every part was PUT, and
\* one of the PUTs failed
C35_Witness ==
    \E i \in DOMAIN files :
        LET n == totalParts(files[i].fileSize)
        IN  /\ up[i].stage = "done"
            /\ n >= 2
            /\ DOMAIN up[i].puts = 1 .. n
            /\ \E k \in DOMAIN up[i].pool.results :
                  up[i].pool.results[k].reason = ChunkReason("status")

C36_WitnessBoth ==
    /\ phase = "resolved"
    /\ Cardinality(DOMAIN files) = 2
    /\ \A i \in DOMAIN files :
          /\ up[i].mark = "ok"
          /\ results[i].key = KeyOf(i)

\* the simple files for which a signed-URL request or a whole-file PUT has
\* been issued
SimpleStarted ==
    {j \in DOMAIN files : ~isChunked(files[j].fileSize)
                             /\ (up[j].reqSimple > 0 \/ up[j].stage # "idle")}
\* the chunked files whose uploadFile has returned its result
ChunkedReturned ==
    {i \in DOMAIN files : /\ isChunked(files[i].fileSize)
                          /\ up[i].stage = "done"
                          /\ IndexOf(chunkedFiles, i) \in DOMAIN filePool.results}

\* C37: no signed-URL request and no PUT of a simple file is issued before
\* every chunked file of the batch has returned its result, so no call of a
\* chunked file and no call of a simple file are ever outstanding together.
C37_PhasesSequential ==
    /\ SimpleStarted # {} =>
          \A i \in DOMAIN files : isChunked(files[i].fileSize) => i \in ChunkedReturned
    /\ \A i, j \in CallsOutstanding :
          isChunked(files[i].fileSize) = isChunked(files[j].fileSize)

\* a batch of a chunked and a simple file: the chunked file has returned and
\* the PUT of the simple file is outstanding
C37_Witness ==
    \E i, j \in DOMAIN files :
        /\ i \in ChunkedReturned
        /\ j \in SimpleStarted
        /\ up[j].stage = "sPut"

\* C38: in every snapshot given to onProgress that carries both values,
\* uploadedBytes is at most totalBytes.
C38_UploadedBytesWithinTotal ==
    \A i \in DOMAIN files :
        \A a \in DOMAIN up[i].progress :
            LET p == up[i].progress[a]
            IN  (p.uploadedBytes # Undefined /\ p.totalBytes # Undefined)
                    => p.uploadedBytes <= p.totalBytes

\* the files of no bytes that went the chunked way and got their session
ZeroByteChunked ==
    {i \in DOMAIN files : /\ files[i].fileSize = 0
                          /\ isChunked(files[i].fileSize)
                          /\ up[i].session = "ok"}

\* no chunk task is planned for file i, no chunk PUT is made and
\* markUploadComplete is not called
NoChunkWork(i) ==
    /\ uploadTasks(files[i].fileSize) = <<>>
    /\ up[i].stage # "chunks"
    /\ up[i].pool.index = 0
    /\ up[i].puts = <<>>
    /\ up[i].markCalls = 0
    /\ up[i].stage # "mark"

\* C39: a file of no bytes sent through the chunked pipeline plans no chunk
\* task and makes no chunk PUT, markUploadComplete is never called for it,
\* and once its pipeline is over it has had one snapshot, a failed one, and
\* its result is failed with the reason 'No upload response received'.
C39_ZeroByteFileFails ==
    \A i \in ZeroByteChunked :
        /\ NoChunkWork(i)
        /\ up[i].stage = "done" =>
              /\ Len(up[i].progress) = 1
              /\ up[i].progress[1].status = "failed"
              /\ FileResultOf(i).uploadFailed
              /\ FileResultOf(i).reason = "No upload response received"

====
